---- MODULE Spec2Model ----
(***************************************************************************)
(* Directive resolution of content-factory (Preprocessor.process and the   *)
(* functions it calls, src/src/utils/preprocessor.ts).                      *)
(*                                                                         *)
(* Strings are sequences of atoms; an atom is one character ("$", "&",     *)
(* "/", ",", "(", ")", " ") or an indivisible run of ordinary characters    *)
(* ("claude", "a").  Document text is a sequence of tokens, the lexical     *)
(* units the code's indexOf calls and regular expressions recognise: a     *)
(* character atom, an opening filter tag with its two attribute values, a  *)
(* closing filter tag, an include directive with its path literal and its  *)
(* pipelines attribute.  Indexes are 1-based, 0 stands for indexOf's -1.   *)
(***************************************************************************)
EXTENDS Integers, Sequences, FiniteSets, TLC

VARIABLES
    files,      \* the file system: normalized absolute path -> content, for readable files
    tool,       \* options.toolName of the top-level call
    registry,   \* options.pipelines is supplied (TRUE) or undefined (FALSE)
    root,       \* options.currentFilePath of the top-level call
    stack,      \* the in-flight Preprocessor.process calls, innermost last
    visited,    \* options.visitedFiles, the one Set shared by the whole recursion
    status,     \* "idle", "running", "throwing", "done", "failed"
    result,     \* the string the top-level call returned
    error,      \* the error in flight or raised to the caller, "none" without one
    reads,      \* log of fs.readFile calls made by processIncludes
    pipeLog,    \* log of pipelineFn invocations made by executePipelines
    exits,      \* log of finished process calls: the set at entry and at exit
    fIn,        \* input of a direct call of processVisibility
    fTool,      \* its currentTool
    fOut,       \* its result
    fDone,      \* the call has returned
    arg,        \* arguments of a direct call of a function that keeps no state
    ret,        \* what such calls returned: function name -> result
    engineOp,   \* the Engine method in progress (readFile, readFiles, run) and its locals
    engineLog   \* what the Engine methods did: documents, transforms, onFinish, outcomes

vars == <<files, tool, registry, root, stack, visited, status, result, error,
          reads, pipeLog, exits, fIn, fTool, fOut, fDone, arg, ret,
          engineOp, engineLog>>

procVars == <<files, tool, registry, root, stack, visited, status, result,
              error, reads, pipeLog, exits>>

filterVars == <<fIn, fTool, fOut, fDone>>

pureVars == <<arg, ret>>

engineVars == <<engineOp, engineLog>>

outerVars == <<filterVars, pureVars, engineVars>>

---------------------------------------------------------------------------
(* Tokens *)

Ch(c) == [t |-> "ch", c |-> c]

Open(inc, exc) == [t |-> "open", inc |-> inc, exc |-> exc]

Close == [t |-> "close"]

Inc(p, pl) == [t |-> "inc", path |-> p, pipes |-> pl]

IsOpen(tok) == tok.t = "open"

IsClose(tok) == tok.t = "close"

IsInc(tok) == tok.t = "inc"

\* The characters of a string as text tokens.
Text(s) == [i \in 1..Len(s) |-> Ch(s[i])]

---------------------------------------------------------------------------
(* String helpers: String.prototype.indexOf, split, trim *)

\* Least index >= from of a token of the given kind, 0 when there is none.
IndexOfKind(text, kind, from) ==
    LET hits == {i \in from..Len(text) : text[i].t = kind}
    IN  IF hits = {} THEN 0 ELSE CHOOSE i \in hits : \A j \in hits : i <= j

\* Least index >= from of the atom a in the string s, 0 when there is none.
IndexOfAtom(s, a, from) ==
    LET hits == {i \in from..Len(s) : s[i] = a}
    IN  IF hits = {} THEN 0 ELSE CHOOSE i \in hits : \A j \in hits : i <= j

RECURSIVE SplitOn(_, _)
\* s.split(sep): the pieces between the separators, empty pieces included.
SplitOn(s, sep) ==
    LET k == IndexOfAtom(s, sep, 1)
    IN  IF k = 0 THEN <<s>>
        ELSE <<SubSeq(s, 1, k - 1)>> \o SplitOn(SubSeq(s, k + 1, Len(s)), sep)

RECURSIVE Trim(_)
\* s.trim(): leading and trailing blanks removed.
Trim(s) ==
    IF s = <<>> THEN s
    ELSE IF s[1] = " " THEN Trim(Tail(s))
    ELSE IF s[Len(s)] = " " THEN Trim(SubSeq(s, 1, Len(s) - 1))
    ELSE s

---------------------------------------------------------------------------
(* Visibility filter: Preprocessor.processVisibility *)

\* An attribute value as the list of its entries: value.split(",").map(trim).
\* A value of <<>> is an attribute the regular expression does not match
\* (absent, or empty between its quotes): the list is then [].
AttrList(value) ==
    IF value = <<>> THEN <<>>
    ELSE LET parts == SplitOn(value, ",")
         IN  [i \in 1..Len(parts) |-> Trim(parts[i])]

\* includes.includes(currentTool)
ListIncludes(list, currentTool) == \E i \in 1..Len(list) : list[i] = currentTool

\* A plausible slip: a tool named by include is kept although exclude names it too.
shouldKeepIncludeWins(tag, currentTool) ==
    LET includes == AttrList(tag.inc)
        excludes == AttrList(tag.exc)
    IN  IF Len(includes) = 0 THEN ~ListIncludes(excludes, currentTool)
        ELSE ListIncludes(includes, currentTool)

\* const shouldKeep = isIncluded && !isExcluded
shouldKeep(tag, currentTool) ==
    LET includes == AttrList(tag.inc)
        excludes == AttrList(tag.exc)
        isIncluded == Len(includes) = 0 \/ ListIncludes(includes, currentTool)
        isExcluded == ListIncludes(excludes, currentTool)
    IN  isIncluded /\ ~isExcluded

RECURSIVE ScanClosing(_, _, _)
\* The while loop that looks for the closing tag of the tag at startIndex:
\* the next opening tag raises depth, the next closing tag lowers it, the
\* closing tag that brings it to 0 is the answer; 0 when the text runs out of
\* closing tags first.
ScanClosing(text, cursor, depth) ==
    IF cursor > Len(text) THEN 0
    ELSE LET nextOpen == IndexOfKind(text, "open", cursor)
             nextClose == IndexOfKind(text, "close", cursor)
         IN  IF nextClose = 0 THEN 0
             ELSE IF nextOpen # 0 /\ nextOpen < nextClose
                  THEN ScanClosing(text, nextOpen + 1, depth + 1)
             ELSE IF depth - 1 = 0 THEN nextClose
             ELSE ScanClosing(text, nextClose + 1, depth - 1)

\* A plausible slip: the first closing tag after the opening tag, nesting ignored.
closingIndexFirstClose(text, startIndex) == IndexOfKind(text, "close", startIndex)

\* closingIndex for the opening tag at startIndex (0 for -1).
closingIndex(text, startIndex) == ScanClosing(text, startIndex, 0)

\* A plausible slip: the open-ended region is cut off.
unclosedCutsRegion(text, startIndex) == SubSeq(text, 1, startIndex - 1)

\* What processVisibility returns for an unclosed tag: the text as it is.
unclosedResult(text, startIndex) == text

RECURSIVE processVisibility(_, _)
processVisibility(text, currentTool) ==
    LET startIndex == IndexOfKind(text, "open", 1)
    IN  IF startIndex = 0 THEN text
        ELSE LET closing == closingIndex(text, startIndex)
             IN  IF closing = 0 THEN unclosedResult(text, startIndex)
                 ELSE LET innerContentRaw == SubSeq(text, startIndex + 1, closing - 1)
                          replacement ==
                              IF shouldKeep(text[startIndex], currentTool)
                              THEN processVisibility(innerContentRaw, currentTool)
                              ELSE <<>>
                          remainingText == SubSeq(text, closing + 1, Len(text))
                      IN  SubSeq(text, 1, startIndex - 1) \o replacement
                              \o processVisibility(remainingText, currentTool)

---------------------------------------------------------------------------
(* String.prototype.replace(searchString, replaceString) *)

RECURSIVE GetSubstitution(_, _, _, _)
\* The replacement text for a string pattern: "$$" is "$", "$&" the matched
\* text, "$`" the text before the match, "$'" the text after it; any other
\* "$" (a string pattern has no capture groups) stands for itself.
GetSubstitution(matched, before, after, replacement) ==
    IF replacement = <<>> THEN <<>>
    ELSE IF replacement[1] = Ch("$") /\ Len(replacement) >= 2
              /\ replacement[2] \in {Ch("$"), Ch("&"), Ch("`"), Ch("'")}
         THEN LET rest == GetSubstitution(matched, before, after,
                                          SubSeq(replacement, 3, Len(replacement)))
              IN  CASE replacement[2] = Ch("$") -> <<Ch("$")>> \o rest
                    [] replacement[2] = Ch("&") -> matched \o rest
                    [] replacement[2] = Ch("`") -> before \o rest
                    [] replacement[2] = Ch("'") -> after \o rest
         ELSE <<replacement[1]>> \o
              GetSubstitution(matched, before, after, Tail(replacement))

\* text.replace(fullMatch, replacement), fullMatch being one directive: the
\* first occurrence of fullMatch gives way to the substitution; a text without
\* the directive is returned as it is.
Replace(text, fullMatch, replacement) ==
    LET hits == {i \in 1..Len(text) : text[i] = fullMatch}
    IN  IF hits = {} THEN text
        ELSE LET k == CHOOSE i \in hits : \A j \in hits : i <= j
                 before == SubSeq(text, 1, k - 1)
                 after == SubSeq(text, k + 1, Len(text))
             IN  before \o GetSubstitution(<<fullMatch>>, before, after, replacement)
                     \o after

---------------------------------------------------------------------------
(* Paths.  A path literal is a string with "/" atoms between its segments.  *)
(* An absolute path is kept as the list of the segments after its leading   *)
(* "/"; path.resolve and the file system read it up to "." and "..".        *)

\* path.isAbsolute(filePath)
isAbsolute(filePath) == Len(filePath) >= 1 /\ filePath[1] = "/"

\* filePath.startsWith("@/")
startsWithAt(filePath) ==
    Len(filePath) >= 2 /\ filePath[1] = "@" /\ filePath[2] = "/"

RECURSIVE NormalizeFrom(_, _)
\* Path normalization: empty and "." segments vanish, ".." removes the
\* segment before it (and stays at the root).
NormalizeFrom(done, todo) ==
    IF todo = <<>> THEN done
    ELSE LET seg == Head(todo)
         IN  IF seg = <<>> \/ seg = <<".">> THEN NormalizeFrom(done, Tail(todo))
             ELSE IF seg = <<"..">>
                  THEN NormalizeFrom(IF done = <<>> THEN done
                                     ELSE SubSeq(done, 1, Len(done) - 1), Tail(todo))
             ELSE NormalizeFrom(Append(done, seg), Tail(todo))

Normalize(segs) == NormalizeFrom(<<>>, segs)

\* path.resolve(base, literal): base is an absolute path.
pathResolve(base, literal) ==
    IF isAbsolute(literal) THEN Normalize(SplitOn(literal, "/"))
    ELSE Normalize(base \o SplitOn(literal, "/"))

\* path.dirname of an absolute path
dirname(p) == IF p = <<>> THEN p ELSE SubSeq(p, 1, Len(p) - 1)

\* A plausible slip: a bare relative literal resolved against the project root.
resolvePathFromRoot(filePath, rootPath, currentFilePath) ==
    IF isAbsolute(filePath) THEN Tail(SplitOn(filePath, "/"))
    ELSE IF startsWithAt(filePath)
         THEN pathResolve(rootPath, SubSeq(filePath, 3, Len(filePath)))
    ELSE pathResolve(rootPath, filePath)

\* Preprocessor.resolvePath
resolvePath(filePath, rootPath, currentFilePath) ==
    IF isAbsolute(filePath) THEN Tail(SplitOn(filePath, "/"))
    ELSE IF startsWithAt(filePath)
         THEN pathResolve(rootPath, SubSeq(filePath, 3, Len(filePath)))
    ELSE pathResolve(dirname(currentFilePath), filePath)

\* A plausible slip: the "@/" of a root-relative literal is not taken off.
resolveFilePathKeepsAt(filePath, engineRoot) ==
    IF isAbsolute(filePath) THEN Tail(SplitOn(filePath, "/"))
    ELSE pathResolve(engineRoot, filePath)

\* Engine.resolveFilePath, engineRoot being this.root
resolveFilePath(filePath, engineRoot) ==
    IF isAbsolute(filePath) THEN Tail(SplitOn(filePath, "/"))
    ELSE IF startsWithAt(filePath)
         THEN pathResolve(engineRoot, SubSeq(filePath, 3, Len(filePath)))
    ELSE pathResolve(engineRoot, filePath)

---------------------------------------------------------------------------
(* Pipelines: Preprocessor.parsePipelineString and executePipelines *)

\* The non-empty elements of a list of strings: filter((p) => p.length > 0).
NonEmpty(list) == SelectSeq(list, LAMBDA p : Len(p) > 0)

\* pushCurrent: the stage of the segment collected in current, appended to
\* result; a blank segment adds nothing (and leaves current as it is).
pushCurrent(current, stages) ==
    LET trimmed == Trim(current)
        parenStart == IndexOfAtom(trimmed, "(", 1)
    IN  IF trimmed = <<>> THEN [current |-> current, stages |-> stages]
        ELSE IF parenStart # 0 /\ trimmed[Len(trimmed)] = ")"
        THEN LET name == Trim(SubSeq(trimmed, 1, parenStart - 1))
                 paramsStr == SubSeq(trimmed, parenStart + 1, Len(trimmed) - 1)
                 parts == SplitOn(paramsStr, ",")
                 params == NonEmpty([i \in 1..Len(parts) |-> Trim(parts[i])])
             IN  [current |-> <<>>,
                  stages |-> Append(stages, [name |-> name, params |-> params])]
        ELSE [current |-> <<>>,
              stages |-> Append(stages, [name |-> trimmed, params |-> <<>>])]

RECURSIVE ParseFrom(_, _, _, _, _)
\* The for loop of parsePipelineString from character i on.
ParseFrom(input, i, current, depth, stages) ==
    IF i > Len(input) THEN pushCurrent(current, stages).stages
    ELSE LET char == input[i]
             d == IF char = "(" THEN depth + 1
                  ELSE IF char = ")" THEN depth - 1 ELSE depth
         IN  IF char = "," /\ d = 0
             THEN LET pushed == pushCurrent(current, stages)
                  IN  ParseFrom(input, i + 1, pushed.current, d, pushed.stages)
             ELSE ParseFrom(input, i + 1, Append(current, char), d, stages)

RECURSIVE ParseAllCommas(_, _)
ParseAllCommas(pieces, stages) ==
    IF pieces = <<>> THEN stages
    ELSE ParseAllCommas(Tail(pieces), pushCurrent(Head(pieces), stages).stages)

\* A plausible slip: the specification is split on every comma, also on those
\* of a parameter list.
parsePipelineStringAllCommas(input) == ParseAllCommas(SplitOn(input, ","), <<>>)

parsePipelineString(input) == ParseFrom(input, 1, <<>>, 0, <<>>)

\* The registered stages (config.pipelines): what each does with its input.
\*   wrap  returns its content between brackets
\*   const returns a fixed content, whatever it is given: a K and the
\*         text of an include directive for ./a
\*   void  returns nothing
\*   boom  throws
PipelineNames == {<<"wrap">>, <<"const">>, <<"void">>, <<"boom">>}

\* config.pipelines is an object literal: availablePipelines[name] also finds
\* what the object inherits from Object.prototype.  Two of those names:
\*   constructor  is Object, which returns the argument object it is given,
\*                content and all
\*   toString     returns a string, which has no content
ObjectPrototypeNames == {<<"constructor">>, <<"toString">>}

\* const pipelineFn = availablePipelines[name]; if (!pipelineFn) ...
lookupFinds(name) == name \in PipelineNames \cup ObjectPrototypeNames

\* pipelineFn({content, pipelineName, params, ...}): returned content, nothing, or a throw.
PipelineFn(name, content, params) ==
    CASE name = <<"wrap">> ->
             [kind |-> "content", content |-> <<Ch("[")>> \o content \o <<Ch("]")>>]
      [] name = <<"const">> ->
             [kind |-> "content",
              content |-> <<Ch("K"), Inc(<<".", "/", "a">>, <<>>)>>]
      [] name = <<"void">> -> [kind |-> "void", content |-> <<>>]
      [] name = <<"boom">> -> [kind |-> "throw", content |-> <<>>]
      [] name = <<"constructor">> -> [kind |-> "content", content |-> content]
      [] name = <<"toString">> -> [kind |-> "void", content |-> <<>>]

RECURSIVE RunStagesChained(_, _, _, _, _)
\* A plausible slip: every stage is given the content the stages before it
\* left, not the content executePipelines was given.
RunStagesChained(content, stages, k, currentContent, calls) ==
    IF k > Len(stages)
    THEN [content |-> currentContent, calls |-> calls, threw |-> FALSE]
    ELSE LET name == stages[k].name
         IN  IF ~lookupFinds(name)
             THEN RunStagesChained(content, stages, k + 1, currentContent, calls)
             ELSE LET r == PipelineFn(name, currentContent, stages[k].params)
                      call == [name |-> name, params |-> stages[k].params,
                               content |-> currentContent, returned |-> r]
                  IN  RunStagesChained(content, stages, k + 1,
                                       IF r.kind = "content" THEN r.content
                                       ELSE currentContent,
                                       Append(calls, call))

RECURSIVE RunStages(_, _, _, _, _)
\* The for loop of executePipelines over the stages from k on: every
\* registered stage is called with the content executePipelines was given;
\* calls collects the invocations.  A throw of a stage is caught here.
RunStages(content, stages, k, currentContent, calls) ==
    IF k > Len(stages)
    THEN [content |-> currentContent, calls |-> calls, threw |-> FALSE]
    ELSE LET name == stages[k].name
         IN  IF ~lookupFinds(name)
             THEN RunStages(content, stages, k + 1, currentContent, calls)
             ELSE LET r == PipelineFn(name, content, stages[k].params)
                      call == [name |-> name, params |-> stages[k].params,
                               content |-> content, returned |-> r]
                  IN  RunStages(content, stages, k + 1,
                                IF r.kind = "content" THEN r.content
                                ELSE currentContent,
                                Append(calls, call))

\* A plausible slip: no try/catch around the stage call, the first stage
\* that throws ends executePipelines with its error.
executePipelinesNoCatch(content, pipelinesStr) ==
    LET stages == parsePipelineString(pipelinesStr)
        r == RunStages(content, stages, 1, content, <<>>)
    IN  IF \E k \in 1..Len(stages) : stages[k].name = <<"boom">>
        THEN [r EXCEPT !.threw = TRUE]
        ELSE r

\* The stage of the README that reads a file of its own, and the file it
\* reads: "inject-header" awaits engine.readFile("@/shared/header.md", ...).
InjectHeader == <<"inject-header">>

HeaderFile == <<"@", "/", "h">>

\* The chain of the directive is that stage alone and the registry is there:
\* executePipelines hands control to engine.readFile before it returns.
callsReadFile(pipelinesStr) == registry /\ pipelinesStr = InjectHeader

\* A plausible slip: the chain is run whenever the directive has the
\* attribute, whether a registry was supplied or not.
runsPipelinesUnchecked(pipelines) == pipelines # <<>>

\* if (pipelines && options.pipelines), line 130
runsPipelines(pipelines) == pipelines # <<>> /\ registry

\* Preprocessor.executePipelines
executePipelines(content, pipelinesStr) ==
    RunStages(content, parsePipelineString(pipelinesStr), 1, content, <<>>)

---------------------------------------------------------------------------
(* The project: root /r with the files /r/main, /r/a and /r/d/b *)

MaxChunks == 2

RootPath == << <<"r">> >>

MainPath == << <<"r">>, <<"main">> >>

APath == << <<"r">>, <<"a">> >>

BPath == << <<"r">>, <<"d">>, <<"b">> >>

Tools == {<<"claude">>, <<"roo">>}

incA == Inc(<<".", "/", "a">>, <<>>)

incB == Inc(<<".", "/", "d", "/", "b">>, <<>>)

incMain == Inc(<<".", "/", "main">>, <<>>)

\* Directives of /r/d/b for files of the directory above its own.
incUpA == Inc(<<"..", "/", "a">>, <<>>)

incUpMain == Inc(<<"..", "/", "main">>, <<>>)

incMissing == Inc(<<".", "/", "nope">>, <<>>)

incDollar == Inc(<<".", "/", "$", "&">>, <<>>)

incAWrap == Inc(<<"@", "/", "a">>, <<"wrap">>)

incAStages ==
    Inc(<<"/", "r", "/", ".", "/", "a">>,
        <<"const", "(", "1", ",", "2", ")", ",", "boom", ",", "nostage", ",", " ", "void">>)

OpenRoo == Open(<<"roo">>, <<>>)

OpenClaude == Open(<<"claude">>, <<>>)

OpenNotClaude == Open(<<>>, <<"claude", ",", " ", "x">>)

OpenBoth == Open(<<"roo", ",", "claude">>, <<"claude">>)

OpenNone == Open(<<>>, <<>>)

MaxFilterLen == 5

\* The tokens the texts given to processVisibility directly are made of.
FilterAlphabet ==
    {Ch("x"), Ch("y"), Close, OpenClaude, OpenNotClaude, OpenBoth, OpenNone}

RECURSIVE TextsOf(_)
\* The texts of at most n tokens.
TextsOf(n) ==
    IF n = 0 THEN {<<>>}
    ELSE LET shorter == TextsOf(n - 1)
         IN  shorter \cup {Append(x, tok) : x \in shorter, tok \in FilterAlphabet}

FilterTexts == TextsOf(MaxFilterLen)

\* The pieces a main document is put together from.
MainChunks ==
    { <<Ch("m"), incA>>,
      <<incDollar>>,
      <<incAWrap>>,
      <<incAStages>>,
      <<OpenRoo, incA, Close>>,
      <<OpenClaude, incMissing>> }

RECURSIVE DocsOf(_)
\* The documents of at most n chunks.
DocsOf(n) ==
    IF n = 0 THEN {<<>>}
    ELSE LET shorter == DocsOf(n - 1)
         IN  shorter \cup {d \o c : d \in shorter, c \in MainChunks}

MainDocs == DocsOf(MaxChunks)

\* The contents /r/a may have.
ADocs ==
    { <<Ch("a")>>,
      <<Ch("$"), Ch("&")>>,
      <<Ch("a"), incB>>,
      <<incA>>,
      <<OpenRoo, incA, Close, Ch("a")>> }

\* The contents /r/d/b may have.
BDocs ==
    { <<incUpA>>,
      <<incUpMain, Ch("b")>>,
      <<OpenClaude, Ch("for claude"), Close, OpenNotClaude, Ch("not for claude"), Close>> }

\* A file system: /r/main with a main document, /r/d/b, and /r/a there or not.
FileSystems ==
    { [p \in {MainPath, BPath} \cup ea |->
          IF p = MainPath THEN m ELSE IF p = APath THEN a ELSE b] :
        m \in MainDocs, a \in ADocs, b \in BDocs, ea \in {{}, {APath}} }

\* No Engine method is in progress; n methods have been called so far.  A
\* method in progress is call number n; last is the number of the latest
\* call, and outer holds the call that awaits this one, for a call made by a
\* pipeline stage.
NoOp(n) ==
    [kind |-> "none", n |-> n, last |-> n, toolName |-> <<>>, pipes |-> <<>>,
     phase |-> "none", queue |-> <<>>, sourceFiles |-> <<>>, tools |-> <<>>,
     strategies |-> <<>>, groups |-> <<>>, metadata |-> <<>>, outer |-> <<>>]

---------------------------------------------------------------------------
(* Preprocessor.process and processIncludes as steps between their awaits *)

\* fs.readFile succeeds
Readable(p) == Normalize(p) \in DOMAIN files

\* `[MISSING FILE: ${filePath}]`
missingFileMarker(filePath) ==
    <<Ch("[MISSING FILE: ")>> \o Text(filePath) \o <<Ch("]")>>

\* A plausible slip: no cycle check.
alreadyVisitedNever(visitedFiles, normalizedCurrentPath) == FALSE

\* visitedFiles.has(normalizedCurrentPath)
alreadyVisited(visitedFiles, normalizedCurrentPath) ==
    normalizedCurrentPath \in visitedFiles

\* A plausible slip: a file stays in the set once it has been expanded.
visitedAfterReturnKept(visitedFiles, normalizedCurrentPath) == visitedFiles

\* visitedFiles.delete(normalizedCurrentPath)
visitedAfterReturn(visitedFiles, normalizedCurrentPath) ==
    visitedFiles \ {normalizedCurrentPath}

\* A plausible slip: the include directives are collected from the content
\* as it was read, before the filter has run over it.
directivesOfUnfiltered(content, toolName) == SelectSeq(content, IsInc)

RECURSIVE Reverse(_)
Reverse(seq) == IF seq = <<>> THEN seq ELSE Append(Reverse(Tail(seq)), Head(seq))

\* A plausible slip: the directives are worked through from the last to the first.
directivesOfReversed(content, toolName) ==
    Reverse(SelectSeq(processVisibility(content, toolName), IsInc))

\* The matches of includeRegex in the text processVisibility returned
\* (process passes the filtered text on to processIncludes).
directivesOf(content, toolName) ==
    SelectSeq(processVisibility(content, toolName), IsInc)

\* A plausible slip: the recursive call runs with a fixed tool name.
recursiveToolNameFixed(toolName) == <<"claude">>

\* toolName: options.toolName, the tool name processIncludes hands to the
\* recursive process call.
recursiveToolName(toolName) == toolName

\* A process call that was just entered for the file at path p.
NewFrame(p, content, toolName) ==
    [ path |-> Normalize(p),  \* normalizedCurrentPath
      raw |-> content,        \* options.content
      toolName |-> toolName,  \* options.toolName
      phase |-> "enter",      \* enter, loop, await, resolved
      filtered |-> <<>>,      \* the text after processVisibility
      text |-> <<>>,          \* the variable text of processIncludes
      matches |-> <<>>,       \* the directives the regular expression found
      idx |-> 1,              \* the directive the for loop is at
      processed |-> <<>>,     \* processedContent, once the recursive call returned
      resolutions |-> <<>>,   \* the replacements given to text.replace so far
      entry |-> {} ]          \* the visitation set when the call was entered

Top == stack[Len(stack)]

Pop == SubSeq(stack, 1, Len(stack) - 1)

SetTop(f) == [stack EXCEPT ![Len(stack)] = f]

\* What is known of a process call when it ends.
ExitRecord(f, threw) ==
    [path |-> f.path, entry |-> f.entry, exit |-> visited', threw |-> threw,
     raw |-> f.raw, filtered |-> f.filtered, matches |-> f.matches,
     resolutions |-> f.resolutions, text |-> f.text]

Init ==
    /\ files \in FileSystems
    /\ tool \in Tools
    /\ registry \in BOOLEAN
    /\ root = MainPath
    /\ stack = <<>>
    /\ visited = {}
    /\ status = "idle"
    /\ result = <<>>
    /\ error = "none"
    /\ reads = <<>>
    /\ pipeLog = <<>>
    /\ exits = <<>>
    /\ fIn = <<>>
    /\ fTool = <<"claude">>
    /\ fOut = <<>>
    /\ fDone = FALSE
    /\ arg = <<>>
    /\ ret = <<>>
    /\ engineOp = NoOp(0)
    /\ engineLog = <<>>

\* The caller reads the root document and calls Preprocessor.process with a
\* visitation set of its own (options.visitedFiles ?? new Set()).
Call ==
    /\ status = "idle"
    /\ stack' = <<NewFrame(root, files[root], tool)>>
    /\ status' = "running"
    /\ UNCHANGED <<files, tool, registry, root, visited, result, error, reads,
                   pipeLog, exits>>
    /\ UNCHANGED outerVars

\* process, lines 26-30: the path is in the visitation set, the call throws.
ProcessThrowCircular ==
    /\ status = "running"
    /\ Top.phase = "enter"
    /\ alreadyVisited(visited, Top.path)
    /\ visited' = visited
    /\ exits' = Append(exits, ExitRecord([Top EXCEPT !.entry = visited], TRUE))
    /\ stack' = Pop
    /\ error' = "CircularDependency"
    /\ status' = IF Len(stack) = 1 THEN "failed" ELSE "throwing"
    /\ UNCHANGED <<files, tool, registry, root, result, reads, pipeLog>>
    /\ UNCHANGED outerVars

\* process, lines 33-51, and processIncludes up to its first await: the path
\* joins the visitation set, the content is filtered, the directives of the
\* filtered text are collected.
ProcessEnter ==
    /\ status = "running"
    /\ Top.phase = "enter"
    /\ ~alreadyVisited(visited, Top.path)
    /\ visited' = visited \cup {Top.path}
    /\ LET text == processVisibility(Top.raw, Top.toolName)
       IN  stack' = SetTop([Top EXCEPT !.phase = "loop",
                                       !.filtered = text,
                                       !.text = text,
                                       !.matches = directivesOf(Top.raw, Top.toolName),
                                       !.idx = 1,
                                       !.entry = visited])
    /\ UNCHANGED <<files, tool, registry, root, status, result, error, reads,
                   pipeLog, exits>>
    /\ UNCHANGED outerVars

\* processIncludes, lines 98-115: the file of the current directive cannot be
\* read, the marker replaces the directive and the loop goes on.
IncludeMissing ==
    /\ status = "running"
    /\ Top.phase = "loop"
    /\ Top.idx <= Len(Top.matches)
    /\ LET m == Top.matches[Top.idx]
           resolvedPath == resolvePath(m.path, RootPath, Top.path)
           includedContent == missingFileMarker(m.path)
       IN  /\ ~Readable(resolvedPath)
           /\ reads' = Append(reads, [by |-> Top.path, directive |-> m,
                                      path |-> resolvedPath, ok |-> FALSE])
           /\ stack' = SetTop([Top EXCEPT
                  !.text = Replace(Top.text, m, includedContent),
                  !.resolutions = Append(Top.resolutions, includedContent),
                  !.idx = Top.idx + 1])
    /\ UNCHANGED <<files, tool, registry, root, visited, status, result, error,
                   pipeLog, exits>>
    /\ UNCHANGED outerVars

\* processIncludes, lines 98-127: the file is read and process is called on
\* its content with the same visitation set.
IncludeRead ==
    /\ status = "running"
    /\ Top.phase = "loop"
    /\ Top.idx <= Len(Top.matches)
    /\ LET m == Top.matches[Top.idx]
           resolvedPath == resolvePath(m.path, RootPath, Top.path)
       IN  /\ Readable(resolvedPath)
           /\ reads' = Append(reads, [by |-> Top.path, directive |-> m,
                                      path |-> resolvedPath, ok |-> TRUE])
           /\ stack' = Append(SetTop([Top EXCEPT !.phase = "await"]),
                              NewFrame(resolvedPath, files[Normalize(resolvedPath)],
                                       recursiveToolName(Top.toolName)))
    /\ UNCHANGED <<files, tool, registry, root, visited, status, result, error,
                   pipeLog, exits>>
    /\ UNCHANGED outerVars

\* process, lines 53-56: all directives are resolved, the path leaves the
\* visitation set and the text goes back to the caller.
ProcessReturn ==
    /\ status = "running"
    /\ Top.phase = "loop"
    /\ Top.idx > Len(Top.matches)
    /\ visited' = visitedAfterReturn(visited, Top.path)
    /\ exits' = Append(exits, ExitRecord(Top, FALSE))
    /\ IF Len(stack) = 1
       THEN /\ stack' = <<>>
            /\ result' = Top.text
            /\ status' = "done"
       ELSE /\ stack' = [Pop EXCEPT ![Len(stack) - 1] =
                           [@ EXCEPT !.phase = "resolved", !.processed = Top.text]]
            /\ UNCHANGED <<result, status>>
    /\ UNCHANGED <<files, tool, registry, root, error, reads, pipeLog>>
    /\ UNCHANGED outerVars

\* processIncludes, lines 129-141: the pipelines of the directive run on the
\* resolved content, and the outcome replaces the directive.
SpliceResolved ==
    /\ status = "running"
    /\ Top.phase = "resolved"
    /\ ~callsReadFile(Top.matches[Top.idx].pipes)
    /\ LET m == Top.matches[Top.idx]
           piped == runsPipelines(m.pipes)
           r == IF piped THEN executePipelines(Top.processed, m.pipes)
                ELSE [content |-> Top.processed, calls |-> <<>>, threw |-> FALSE]
       IN  /\ pipeLog' = pipeLog \o
                  [i \in 1..Len(r.calls) |->
                      [by |-> Top.path, directive |-> m, call |-> r.calls[i]]]
           /\ IF r.threw
              THEN /\ status' = "throwing"
                   /\ error' = "PipelineStageFailure"
                   /\ stack' = stack
              ELSE /\ stack' = SetTop([Top EXCEPT
                          !.phase = "loop",
                          !.text = Replace(Top.text, m, r.content),
                          !.resolutions = Append(Top.resolutions, r.content),
                          !.idx = Top.idx + 1])
                   /\ UNCHANGED <<status, error>>
    /\ UNCHANGED <<files, tool, registry, root, visited, result, reads, exits>>
    /\ UNCHANGED outerVars

\* An error on its way up: neither processIncludes nor process catches it, the
\* awaiting call ends with it, and line 54 is not reached.
Propagate ==
    /\ status = "throwing"
    /\ stack # <<>>
    /\ visited' = visited
    /\ exits' = Append(exits, ExitRecord(Top, TRUE))
    /\ stack' = Pop
    /\ status' = IF Len(stack) = 1 THEN "failed" ELSE "throwing"
    /\ UNCHANGED <<files, tool, registry, root, result, error, reads, pipeLog>>
    /\ UNCHANGED outerVars

ProcNext ==
    \/ Call
    \/ ProcessThrowCircular
    \/ ProcessEnter
    \/ IncludeMissing
    \/ IncludeRead
    \/ ProcessReturn
    \/ SpliceResolved
    \/ Propagate

Next == ProcNext

Spec == Init /\ [][Next]_vars

\* A step of Next can be taken: the top-level call has not been made yet, a
\* process call is at work, or an error is on its way up (what ENABLED
\* <<Next>>_vars comes to, read off the guards of the actions).
CanStep ==
    \/ status = "idle"
    \/ status = "running"
    \/ status = "throwing" /\ stack # <<>>

\* The same with the event loop's promise that every continuation that can
\* run does run: an awaited read settles, an awaited call is resumed.  This
\* is WF_vars(Next) written out, with CanStep for ENABLED <<Next>>_vars.
SpecFair == Init /\ [][Next]_vars /\ ([]<>~CanStep \/ []<><<Next>>_vars)

---------------------------------------------------------------------------
(* processVisibility called on its own *)

InitFilter ==
    /\ files = [p \in {MainPath} |-> <<>>]
    /\ tool = <<"claude">>
    /\ registry = FALSE
    /\ root = MainPath
    /\ stack = <<>>
    /\ visited = {}
    /\ status = "off"
    /\ result = <<>>
    /\ error = "none"
    /\ reads = <<>>
    /\ pipeLog = <<>>
    /\ exits = <<>>
    /\ fIn \in FilterTexts
    /\ fTool \in Tools
    /\ fOut = <<>>
    /\ fDone = FALSE
    /\ arg = <<>>
    /\ ret = <<>>
    /\ engineOp = NoOp(0)
    /\ engineLog = <<>>

FilterCall ==
    /\ status = "off"
    /\ ~fDone
    /\ fOut' = processVisibility(fIn, fTool)
    /\ fDone' = TRUE
    /\ UNCHANGED <<fIn, fTool>>
    /\ UNCHANGED procVars
    /\ UNCHANGED pureVars
    /\ UNCHANGED engineVars

NextFilter == FilterCall

SpecFilter == InitFilter /\ [][NextFilter]_vars

---------------------------------------------------------------------------
(* The functions that keep no state, called on their own: resolvePath,      *)
(* Engine.resolveFilePath, parsePipelineString, executePipelines            *)

\* No process call and no direct filter call is part of these specifications.
NoProcess ==
    /\ files = [p \in {MainPath} |-> <<>>]
    /\ tool = <<"claude">>
    /\ registry = TRUE
    /\ root = MainPath
    /\ stack = <<>>
    /\ visited = {}
    /\ status = "off"
    /\ result = <<>>
    /\ error = "none"
    /\ reads = <<>>
    /\ pipeLog = <<>>
    /\ exits = <<>>
    /\ fIn = <<>>
    /\ fTool = <<"claude">>
    /\ fOut = <<>>
    /\ fDone = TRUE
    /\ engineOp = NoOp(0)
    /\ engineLog = <<>>

\* The call of fn with the arguments of arg returns value.
Returns(fn, value) ==
    /\ status = "off"
    /\ fn \notin DOMAIN ret
    /\ ret' = [f \in DOMAIN ret \cup {fn} |-> IF f = fn THEN value ELSE ret[f]]
    /\ UNCHANGED arg
    /\ UNCHANGED procVars
    /\ UNCHANGED filterVars
    /\ UNCHANGED engineVars

MaxSegs == 3

\* The segments path literals are made of.
PathSegs == {<<"a">>, <<"d">>, <<".">>, <<"..">>}

RECURSIVE RelativeLiterals(_)
\* The bare relative literals of 1 to n segments.
RelativeLiterals(n) ==
    IF n = 1 THEN PathSegs
    ELSE LET shorter == RelativeLiterals(n - 1)
         IN  shorter \cup {l \o <<"/">> \o seg : l \in shorter, seg \in PathSegs}

\* The literals: bare relative, absolute, root-relative.
PathLiterals ==
    {pre \o l : pre \in {<<>>, <<"/">>, <<"@", "/">>}, l \in RelativeLiterals(MaxSegs)}

InitPaths ==
    /\ NoProcess
    /\ arg \in [filePath : PathLiterals, currentFilePath : {MainPath, BPath}]
    /\ ret = <<>>

\* Preprocessor.resolvePath(filePath, rootPath, currentFilePath)
ResolvePathCall ==
    Returns("resolvePath", resolvePath(arg.filePath, RootPath, arg.currentFilePath))

\* engine.resolveFilePath(filePath) of an Engine whose root is the project root
ResolveFilePathCall ==
    Returns("resolveFilePath", resolveFilePath(arg.filePath, RootPath))

NextPaths == ResolvePathCall \/ ResolveFilePathCall

SpecPaths == InitPaths /\ [][NextPaths]_vars

MaxSpecLen == 5

\* The characters pipeline specifications are made of.
SpecAlphabet == {"a", "b", "(", ")", ",", " "}

RECURSIVE StringsOf(_)
\* The strings of 1 to n characters.
StringsOf(n) ==
    IF n = 1 THEN {<<c>> : c \in SpecAlphabet}
    ELSE LET shorter == StringsOf(n - 1)
         IN  shorter \cup {Append(x, c) : x \in shorter, c \in SpecAlphabet}

InitParse ==
    /\ NoProcess
    /\ arg \in [input : StringsOf(MaxSpecLen)]
    /\ ret = <<>>

\* Preprocessor.parsePipelineString(input)
ParseCall == Returns("parsePipelineString", parsePipelineString(arg.input))

NextParse == ParseCall

SpecParse == InitParse /\ [][NextParse]_vars

MaxStages == 3

\* What the stages of a pipelines attribute are written as.
StageTexts ==
    { <<"wrap">>, <<"const">>, <<"void">>, <<"boom">>, <<"nostage">>,
      <<"constructor">>, <<"toString">>, <<"wrap", "(", "1", ",", "2", ")">> }

RECURSIVE SpecsOf(_)
\* The specifications of 1 to n stages.
SpecsOf(n) ==
    IF n = 1 THEN StageTexts
    ELSE LET shorter == SpecsOf(n - 1)
         IN  shorter \cup {x \o <<",">> \o st : x \in shorter, st \in StageTexts}

InitPipelines ==
    /\ NoProcess
    /\ arg \in [content : {<<Ch("a")>>, <<>>}, pipelinesStr : SpecsOf(MaxStages)]
    /\ ret = <<>>

\* Preprocessor.executePipelines(content, pipelinesStr, availablePipelines, ...)
ExecuteCall ==
    Returns("executePipelines", executePipelines(arg.content, arg.pipelinesStr))

NextPipelines == ExecuteCall

SpecPipelines == InitPipelines /\ [][NextPipelines]_vars

---------------------------------------------------------------------------
(* Engine: readFile, readFiles and run as steps between their awaits *)

MaxOps == 2

\* A plausible slip: the Engine keeps one visitation set and hands it to
\* every Preprocessor.process call it makes.
visitedFilesOfCallShared(previous) == previous

\* process, line 22, as the Engine calls it: readFile, readFiles and run pass
\* no visitedFiles, so `options.visitedFiles ?? new Set()` is a new, empty set
\* whatever the set of the call before holds.
visitedFilesOfCall(previous) == {}

\* The files of the Engine's project: /r/main includes /r/a; /r/a is plain,
\* includes itself for claude only, or includes /r/d/b; /r/d/b includes /r/a
\* or a file that is not there.
EngineFileSystems ==
    { [p \in {MainPath, APath, BPath} |->
          IF p = MainPath THEN <<Ch("m"), incA>> ELSE IF p = APath THEN a ELSE b] :
        a \in {<<Ch("a")>>, <<OpenClaude, incA, Close, Ch("a")>>, <<Ch("a"), incB>>},
        b \in {<<incUpA>>, <<Inc(<<"a">>, <<>>)>>} }

\* engine.readFile(filePath, {toolName, strategyName, pipelines})
ReadFileRequests ==
    { [filePath |-> <<"main">>, toolName |-> <<"claude">>, pipelines |-> <<>>],
      [filePath |-> <<"a">>, toolName |-> <<"roo">>, pipelines |-> <<"wrap">>],
      [filePath |-> <<"@", "/", "d", "/", "b">>, toolName |-> <<"claude">>,
       pipelines |-> <<>>],
      [filePath |-> <<"nope">>, toolName |-> <<"claude">>, pipelines |-> <<>>] }

\* engine.readFiles(patterns, {toolName, strategyName, pipelines})
ReadFilesRequests ==
    { [patterns |-> << <<"*">> >>, toolName |-> <<"claude">>, pipelines |-> <<>>],
      [patterns |-> << <<"d", "/", "*">>, <<"x", "/", "*">> >>,
       toolName |-> <<"roo">>, pipelines |-> <<"wrap">>],
      [patterns |-> << <<"x", "/", "*">> >>, toolName |-> <<"roo">>,
       pipelines |-> <<>>] }

\* A strategy of the configuration: what it matches, and what its transform
\* does with a directory group: it returns metadata, returns the metadata 0,
\* returns nothing to collect, throws, returns files to delete and to write,
\* or asks to delete the files of the directory d.
Strategy(name, matches, transform) ==
    [name |-> name, matches |-> matches, transform |-> transform]

\* A tool of the configuration; onFinish is "none" when the tool has none.
ToolConfig(name, strategies, onFinish) ==
    [name |-> name, strategies |-> strategies, onFinish |-> onFinish]

\* config.tools, in the order of Object.entries
RunConfigs ==
    { << ToolConfig(<<"claude">>,
             << Strategy("docs", << <<"*", "*", "/", "*">> >>, "metadata") >>, "ok"),
         ToolConfig(<<"roo">>,
             << Strategy("none", << <<"x", "/", "*">> >>, "empty"),
                Strategy("deep", << <<"d", "/", "*">> >>, "throws") >>, "none") >>,
      << ToolConfig(<<"roo">>,
             << Strategy("top", << <<"*">> >>, "empty") >>, "ok") >> }

\* The path of p below the Engine's root.
RelativeTo(p) == SubSeq(p, Len(RootPath) + 1, Len(p))

\* fast-glob's match of one pattern against a file of the project: * is the
\* files of the root directory, d/* and x/* those of a directory, **/* all.
globMatch(pattern, p) ==
    LET rel == RelativeTo(p)
    IN  IF pattern = <<"*">> THEN Len(rel) = 1
        ELSE IF pattern = <<"*", "*", "/", "*">> THEN TRUE
        ELSE /\ Len(pattern) = 3
             /\ pattern[2] = "/"
             /\ pattern[3] = "*"
             /\ Len(rel) = 2
             /\ rel[1] = <<pattern[1]>>

\* The files findFiles(patterns, this.root) finds.
Found(patterns) ==
    {p \in DOMAIN files : \E i \in 1..Len(patterns) : globMatch(patterns[i], p)}

\* The orders in which fast-glob may report them.
Orderings(S) ==
    {s \in [1..Cardinality(S) -> S] : \A i, j \in 1..Cardinality(S) : s[i] = s[j] => i = j}

RECURSIVE GroupFrom(_, _, _)
\* run, lines 1674-1679: the Map from directory to its files, in the order
\* the directories were first met.
GroupFrom(filePaths, i, dirGroups) ==
    IF i > Len(filePaths) THEN dirGroups
    ELSE LET fp == filePaths[i]
             dir == dirname(fp)
             at == {g \in 1..Len(dirGroups) : dirGroups[g].dir = dir}
         IN  IF at = {}
             THEN GroupFrom(filePaths, i + 1,
                            Append(dirGroups, [dir |-> dir, files |-> <<fp>>]))
             ELSE LET g == CHOOSE x \in at : TRUE
                  IN  GroupFrom(filePaths, i + 1,
                                [dirGroups EXCEPT ![g].files = Append(@, fp)])

\* A plausible slip: the matched files are handed over in one batch.
GroupByDirOneBatch(filePaths) ==
    IF filePaths = <<>> THEN <<>>
    ELSE <<[dir |-> dirname(filePaths[1]), files |-> filePaths]>>

GroupByDir(filePaths) == GroupFrom(filePaths, 1, <<>>)

\* The SourceFile of a processed document.
SourceFile(p, content) == [path |-> p, content |-> content]

\* The paths of a list of SourceFiles.
PathsOf(sourceFiles) == [i \in 1..Len(sourceFiles) |-> sourceFiles[i].path]

\* A metadata value a transform returns: what it is about and which
\* JavaScript value it is (an object, or the number 0).
Metadata(about, js) == [about |-> about, js |-> js]

\* if (result.metadata): the value is truthy
Truthy(value) == value.js \notin {"0", "", "false", "null"}

\* What a transform or an onFinish hands back to run: it threw, or it
\* returned a result with metadata (none, or one value), deleteFiles
\* patterns and files.
CallbackResult(threw, metadata, deletePatterns, outputs) ==
    [threw |-> threw, metadata |-> metadata, deleteFiles |-> deletePatterns,
     files |-> outputs]

\* The text a transform writes for the directory it was called for.
OutputFor(dir) == <<Ch("out")>> \o [i \in 1..Len(dir) |-> Ch(dir[i][1])]

\* strategy.transform(context), for the transforms of the configurations
\* above; a result of the kind "files" asks to delete out/* and to write
\* out/x.
TransformResult(strategy, dir) ==
    LET about == <<strategy.name, dir>>
    IN  IF strategy.transform = "throws" THEN CallbackResult(TRUE, <<>>, <<>>, <<>>)
        ELSE IF strategy.transform = "metadata"
        THEN CallbackResult(FALSE, <<Metadata(about, "object")>>, <<>>, <<>>)
        ELSE IF strategy.transform = "zero"
        THEN CallbackResult(FALSE, <<Metadata(about, "0")>>, <<>>, <<>>)
        ELSE IF strategy.transform = "files"
        THEN CallbackResult(FALSE, <<>>, << <<"out", "/", "*">> >>,
                 << [path |-> <<"out", "/", "x">>, content |-> OutputFor(dir)] >>)
        ELSE IF strategy.transform = "purge"
        THEN CallbackResult(FALSE, <<>>, << <<"d", "/", "*">> >>, <<>>)
        ELSE CallbackResult(FALSE, <<>>, <<>>, <<>>)

\* toolConfig.onFinish({metadata, engine}): it returns nothing, throws, or
\* returns files to delete and to write.
OnFinishResult(onFinish, toolName) ==
    IF onFinish = "throws" THEN CallbackResult(TRUE, <<>>, <<>>, <<>>)
    ELSE IF onFinish = "files"
    THEN CallbackResult(FALSE, <<>>, << <<"out", "/", "*">> >>,
             << [path |-> <<"out", "/", "x">>,
                 content |-> <<Ch("finished")>> \o Text(toolName)] >>)
    ELSE CallbackResult(FALSE, <<>>, <<>>, <<>>)

\* A plausible slip: the transform is called outside the try block.
caughtOnFinishOnly(where) == where = "onFinish"

\* run, lines 1716-1738 and 1745-1763: the calls of transform and onFinish,
\* and the deletions and writes their results ask for, are inside try/catch.
caught(where) == where \in {"transform", "onFinish"}

\* The files of fileSystem that one of the patterns matches.
MatchedIn(fileSystem, patterns) ==
    {p \in DOMAIN fileSystem : \E i \in 1..Len(patterns) : globMatch(patterns[i], p)}

\* deleteFiles(patterns, root): the files the patterns match are unlinked.
deleteFiles(fileSystem, patterns) ==
    LET gone == MatchedIn(fileSystem, patterns)
    IN  [p \in DOMAIN fileSystem \ gone |-> fileSystem[p]]

\* Where writeFiles puts an output: its path as it is when absolute, else
\* from the root.
destPath(outPath) ==
    IF isAbsolute(outPath) THEN Normalize(Tail(SplitOn(outPath, "/")))
    ELSE Normalize(pathResolve(RootPath, outPath))

RECURSIVE writeFrom(_, _, _)
writeFrom(fileSystem, outputs, i) ==
    IF i > Len(outputs) THEN fileSystem
    ELSE LET dest == destPath(outputs[i].path)
         IN  writeFrom([p \in DOMAIN fileSystem \cup {dest} |->
                           IF p = dest THEN outputs[i].content ELSE fileSystem[p]],
                       outputs, i + 1)

\* writeFiles(files, root): every output is written to its destination.
writeFiles(fileSystem, outputs) == writeFrom(fileSystem, outputs, 1)

\* A plausible slip: the files are written first, the deletions come after.
applyResultWritesFirst(fileSystem, r) ==
    deleteFiles(writeFiles(fileSystem, r.files), r.deleteFiles)

\* run, lines 1719-1727 and 1751-1756: the deletions of a result are awaited,
\* then its files are written.
applyResult(fileSystem, r) ==
    writeFiles(deleteFiles(fileSystem, r.deleteFiles), r.files)

\* A plausible slip: the error of a document is caught like the error of a
\* transform, and the loop goes on with the next file.
rejectedOpGoesOn(op) == [op EXCEPT !.queue = Tail(@)]

\* What is left of a method that rejects: nothing of it runs any more.
rejectedOp(op) == NoOp(op.last)

\* A plausible slip: a top-level file that cannot be read is treated like an
\* include that cannot be read, and yields the marker.
topLevelReadMarker(p) ==
    [threw |-> FALSE,
     content |-> IF Readable(p) THEN files[Normalize(p)]
                 ELSE missingFileMarker(<<"?">>)]

\* const rawContent = await fs.readFile(path, "utf-8"), in readFile,
\* readFiles and run: there is no try around it, the error of the read is
\* the error of the method.
topLevelRead(p) ==
    [threw |-> ~Readable(p),
     content |-> IF Readable(p) THEN files[Normalize(p)] ELSE <<>>]

\* The record of a method that rejects with an error.
Rejection(err) ==
    [event |-> "rejected", method |-> engineOp.kind, n |-> engineOp.n,
     toolName |-> engineOp.toolName,
     path |-> root, error |-> err, inFlight |-> visited]

\* The Engine method in progress ends: its promise resolves or rejects.
Settle(entry) ==
    /\ engineOp' = NoOp(engineOp.last)
    /\ engineLog' = Append(engineLog, entry)

\* The Engine is not inside a Preprocessor.process call.
BetweenDocuments == status = "idle" /\ stack = <<>>

\* The method in progress was called by the user of the Engine, not by a
\* pipeline stage of a document another method is resolving.
Outermost == engineOp.outer = <<>>

InitEngine ==
    /\ files \in EngineFileSystems
    /\ tool = <<"claude">>
    /\ registry = TRUE
    /\ root = MainPath
    /\ stack = <<>>
    /\ visited = {}
    /\ status = "idle"
    /\ result = <<>>
    /\ error = "none"
    /\ reads = <<>>
    /\ pipeLog = <<>>
    /\ exits = <<>>
    /\ fIn = <<>>
    /\ fTool = <<"claude">>
    /\ fOut = <<>>
    /\ fDone = TRUE
    /\ arg = <<>>
    /\ ret = <<>>
    /\ engineOp = NoOp(0)
    /\ engineLog = <<>>

\* readFile, line 1558: the path is resolved; the file is read next.
StartReadFile(requests, limit) ==
    /\ engineOp.kind = "none"
    /\ engineOp.n < limit
    /\ BetweenDocuments
    /\ \E rq \in requests :
           /\ engineOp' = [NoOp(engineOp.n + 1) EXCEPT
               !.kind = "readFile",
               !.toolName = rq.toolName,
               !.pipes = rq.pipelines,
               !.phase = "files",
               !.queue = <<resolveFilePath(rq.filePath, RootPath)>>]
           /\ engineLog' = Append(engineLog,
                  [event |-> "readFile", n |-> engineOp.n + 1,
                   toolName |-> rq.toolName, filePath |-> rq.filePath,
                   path |-> Normalize(resolveFilePath(rq.filePath, RootPath))])
    /\ UNCHANGED <<procVars, filterVars, pureVars>>

EngineReadFile == StartReadFile(ReadFileRequests, MaxOps)

\* readFiles, lines 1601-1602: the files are found; the loop reads them next.
EngineReadFiles ==
    /\ engineOp.kind = "none"
    /\ engineOp.n < MaxOps
    /\ BetweenDocuments
    /\ \E rq \in ReadFilesRequests :
       \E filePaths \in Orderings(Found(rq.patterns)) :
           engineOp' = [NoOp(engineOp.n + 1) EXCEPT
               !.kind = "readFiles",
               !.toolName = rq.toolName,
               !.pipes = rq.pipelines,
               !.phase = "files",
               !.queue = filePaths]
    /\ UNCHANGED <<procVars, filterVars, pureVars, engineLog>>

\* run, line 1661: the loop over the tools of one of the given
\* configurations begins.
StartRun(configs, limit) ==
    /\ engineOp.kind = "none"
    /\ engineOp.n < limit
    /\ BetweenDocuments
    /\ \E tools \in configs :
           /\ engineOp' = [NoOp(engineOp.n + 1) EXCEPT
                  !.kind = "run", !.tools = tools, !.phase = "tool"]
           /\ engineLog' = Append(engineLog,
                  [event |-> "run", n |-> engineOp.n + 1, tools |-> tools])
    /\ UNCHANGED <<procVars, filterVars, pureVars>>

EngineRun == StartRun(RunConfigs, MaxOps)

\* run, lines 1661-1664 and 1767: the next tool, with no metadata yet, or the
\* end of run.
RunNextTool ==
    /\ engineOp.kind = "run"
    /\ engineOp.phase = "tool"
    /\ IF engineOp.tools = <<>>
       THEN Settle([event |-> "resolved", method |-> "run", n |-> engineOp.n])
       ELSE /\ engineOp' = [engineOp EXCEPT
                   !.toolName = Head(engineOp.tools).name,
                   !.strategies = Head(engineOp.tools).strategies,
                   !.metadata = <<>>,
                   !.phase = "strategy"]
            /\ UNCHANGED engineLog
    /\ UNCHANGED <<procVars, filterVars, pureVars>>

\* run, lines 1667-1679: the files of the next strategy are found and grouped
\* by directory; after the last strategy comes onFinish.
RunNextStrategy ==
    /\ engineOp.kind = "run"
    /\ engineOp.phase = "strategy"
    /\ IF engineOp.strategies = <<>>
       THEN /\ engineOp' = [engineOp EXCEPT !.phase = "onFinish"]
            /\ UNCHANGED engineLog
       ELSE \E rawFilePaths \in Orderings(Found(Head(engineOp.strategies).matches)) :
                /\ engineOp' = [engineOp EXCEPT
                       !.groups = GroupByDir(rawFilePaths), !.phase = "group"]
                /\ engineLog' = Append(engineLog,
                       [event |-> "found", n |-> engineOp.n,
                        toolName |-> engineOp.toolName,
                        strategy |-> Head(engineOp.strategies).name,
                        filePaths |-> rawFilePaths])
    /\ UNCHANGED <<procVars, filterVars, pureVars>>

\* run, lines 1682-1683: the next directory group, with no SourceFile yet.
RunNextGroup ==
    /\ engineOp.kind = "run"
    /\ engineOp.phase = "group"
    /\ IF engineOp.groups = <<>>
       THEN engineOp' = [engineOp EXCEPT
                !.strategies = Tail(engineOp.strategies), !.phase = "strategy"]
       ELSE engineOp' = [engineOp EXCEPT
                !.queue = Head(engineOp.groups).files,
                !.sourceFiles = <<>>,
                !.phase = "files"]
    /\ UNCHANGED <<procVars, filterVars, pureVars, engineLog>>

\* readFile line 1560: fs.readFile fails, and readFile with it.
EngineReadFails ==
    /\ Outermost
    /\ engineOp.phase = "files"
    /\ BetweenDocuments
    /\ engineOp.queue # <<>>
    /\ topLevelRead(Head(engineOp.queue)).threw
    /\ Settle([event |-> "rejected", method |-> engineOp.kind, n |-> engineOp.n,
               toolName |-> engineOp.toolName,
               path |-> Head(engineOp.queue), error |-> "ENOENT", inFlight |-> {}])
    /\ UNCHANGED <<procVars, filterVars, pureVars>>

\* readFile lines 1560-1570, readFiles lines 1605-1615, run lines 1687-1696:
\* the document is read and Preprocessor.process is called on it, with the
\* tool of the call, the Engine's root, and no visitedFiles.
EnginePreprocess ==
    /\ engineOp.phase = "files"
    /\ BetweenDocuments
    /\ engineOp.queue # <<>>
    /\ ~topLevelRead(Head(engineOp.queue)).threw
    /\ LET fp == Normalize(Head(engineOp.queue))
           rawContent == topLevelRead(Head(engineOp.queue)).content
       IN  /\ root' = fp
           /\ tool' = engineOp.toolName
           /\ visited' = visitedFilesOfCall(visited)
           /\ stack' = <<NewFrame(fp, rawContent, engineOp.toolName)>>
    /\ status' = "running"
    /\ result' = <<>>
    /\ error' = "none"
    /\ reads' = <<>>
    /\ pipeLog' = <<>>
    /\ exits' = <<>>
    /\ UNCHANGED <<files, registry>>
    /\ UNCHANGED outerVars

\* readFile lines 1573-1590, readFiles lines 1618-1635, run lines 1698-1704:
\* process returned; readFile and readFiles run options.pipelines over the
\* content; the SourceFile joins the others.
EngineCollect ==
    /\ engineOp.kind # "none"
    /\ status = "done"
    /\ LET piped == engineOp.kind # "run" /\ engineOp.pipes # <<>> /\ registry
           processedContent ==
               IF piped THEN executePipelines(result, engineOp.pipes).content
               ELSE result
       IN  engineOp' = [engineOp EXCEPT
               !.queue = Tail(engineOp.queue),
               !.sourceFiles = Append(engineOp.sourceFiles,
                                      SourceFile(root, processedContent))]
    /\ status' = "idle"
    /\ UNCHANGED <<files, tool, registry, root, stack, visited, result, error,
                   reads, pipeLog, exits>>
    /\ UNCHANGED <<filterVars, pureVars, engineLog>>

\* The error of Preprocessor.process is caught by none of the three methods:
\* the method rejects with it, whatever it had collected.
EngineReject ==
    /\ Outermost
    /\ engineOp.kind # "none"
    /\ status = "failed"
    /\ engineOp' = rejectedOp(engineOp)
    /\ engineLog' = Append(engineLog, Rejection(error))
    /\ status' = "idle"
    /\ UNCHANGED <<files, tool, registry, root, stack, visited, result, error,
                   reads, pipeLog, exits>>
    /\ UNCHANGED <<filterVars, pureVars>>

\* readFile line 1584, readFiles line 1638: the last document is in, the
\* method returns what it collected.
EngineReturn ==
    /\ Outermost
    /\ engineOp.kind \in {"readFile", "readFiles"}
    /\ engineOp.phase = "files"
    /\ BetweenDocuments
    /\ engineOp.queue = <<>>
    /\ Settle([event |-> "resolved", method |-> engineOp.kind, n |-> engineOp.n,
               sourceFiles |-> engineOp.sourceFiles])
    /\ UNCHANGED <<procVars, filterVars, pureVars>>

\* run, lines 1707-1738: the transform of the strategy is called once with
\* the SourceFiles of the directory group; the files its result names are
\* deleted, then its files are written, its metadata is collected when
\* truthy; its error is logged and run goes on.
RunTransform ==
    /\ engineOp.kind = "run"
    /\ engineOp.phase = "files"
    /\ BetweenDocuments
    /\ engineOp.queue = <<>>
    /\ LET strategy == Head(engineOp.strategies)
           group == Head(engineOp.groups)
           r == TransformResult(strategy, group.dir)
           entry == [event |-> "transform", n |-> engineOp.n,
                     toolName |-> engineOp.toolName, strategy |-> strategy.name,
                     dir |-> group.dir, files |-> PathsOf(engineOp.sourceFiles),
                     result |-> r, before |-> files]
       IN  IF r.threw
           THEN /\ files' = files
                /\ IF caught("transform")
                   THEN /\ engineOp' = [engineOp EXCEPT
                              !.groups = Tail(engineOp.groups), !.phase = "group"]
                        /\ engineLog' = Append(engineLog, entry)
                   ELSE /\ engineOp' = rejectedOp(engineOp)
                        /\ engineLog' = engineLog \o <<entry, Rejection("transform")>>
           ELSE /\ files' = applyResult(files, r)
                /\ engineLog' = Append(engineLog, entry)
                /\ engineOp' = [engineOp EXCEPT
                       !.groups = Tail(engineOp.groups),
                       !.metadata = IF r.metadata # <<>> /\ Truthy(r.metadata[1])
                                    THEN Append(@, r.metadata[1])
                                    ELSE @,
                       !.phase = "group"]
    /\ UNCHANGED <<tool, registry, root, stack, visited, status, result, error,
                   reads, pipeLog, exits>>
    /\ UNCHANGED <<filterVars, pureVars>>

\* run, lines 1742-1764: onFinish, when the tool has one, is called with the
\* metadata collected for the tool; the files its result names are deleted,
\* then its files are written; its error is logged; then the next tool.
RunOnFinish ==
    /\ engineOp.kind = "run"
    /\ engineOp.phase = "onFinish"
    /\ LET toolConfig == Head(engineOp.tools)
           r == OnFinishResult(toolConfig.onFinish, engineOp.toolName)
           entry == [event |-> "onFinish", n |-> engineOp.n,
                     toolName |-> engineOp.toolName,
                     metadata |-> engineOp.metadata,
                     result |-> r, before |-> files]
           next == [engineOp EXCEPT !.tools = Tail(engineOp.tools), !.phase = "tool"]
       IN  IF toolConfig.onFinish = "none"
           THEN /\ engineOp' = next
                /\ UNCHANGED <<files, engineLog>>
           ELSE /\ files' = IF r.threw THEN files ELSE applyResult(files, r)
                /\ IF r.threw /\ ~caught("onFinish")
                   THEN /\ engineOp' = rejectedOp(engineOp)
                        /\ engineLog' = engineLog \o <<entry, Rejection("onFinish")>>
                   ELSE /\ engineOp' = next
                        /\ engineLog' = Append(engineLog, entry)
    /\ UNCHANGED <<tool, registry, root, stack, visited, status, result, error,
                   reads, pipeLog, exits>>
    /\ UNCHANGED <<filterVars, pureVars>>

NextEngine ==
    \/ EngineReadFile
    \/ EngineReadFiles
    \/ EngineRun
    \/ RunNextTool
    \/ RunNextStrategy
    \/ RunNextGroup
    \/ EngineReadFails
    \/ EnginePreprocess
    \/ ProcessThrowCircular
    \/ ProcessEnter
    \/ IncludeMissing
    \/ IncludeRead
    \/ ProcessReturn
    \/ SpliceResolved
    \/ Propagate
    \/ EngineCollect
    \/ EngineReject
    \/ EngineReturn
    \/ RunTransform
    \/ RunOnFinish

SpecEngine == InitEngine /\ [][NextEngine]_vars

\* The configurations engine.run() is followed through on its own: a
\* transform that throws for the first of two strategies and an onFinish that
\* throws for the first of two tools; metadata that is 0; results with files
\* to delete and to write; a transform that deletes files run has yet to read.
RunPlans ==
    { << ToolConfig(<<"claude">>,
             << Strategy("all", << <<"*", "*", "/", "*">> >>, "throws"),
                Strategy("deep", << <<"d", "/", "*">> >>, "metadata") >>, "throws"),
         ToolConfig(<<"roo">>,
             << Strategy("top", << <<"*">> >>, "metadata"),
                Strategy("none", << <<"x", "/", "*">> >>, "metadata") >>, "ok") >>,
      << ToolConfig(<<"roo">>,
             << Strategy("top", << <<"*">> >>, "zero"),
                Strategy("deep", << <<"d", "/", "*">> >>, "metadata") >>, "ok"),
         ToolConfig(<<"claude">>,
             << Strategy("deep", << <<"d", "/", "*">> >>, "empty") >>, "none") >>,
      << ToolConfig(<<"roo">>,
             << Strategy("all", << <<"*", "*", "/", "*">> >>, "files") >>, "files") >>,
      << ToolConfig(<<"roo">>,
             << Strategy("all", << <<"*", "*", "/", "*">> >>, "purge") >>, "none") >> }

\* engine.run() is the first thing asked of the Engine.
RunOnce ==
    /\ engineLog = <<>>
    /\ StartRun(RunPlans, 1)

NextRun ==
    \/ RunOnce
    \/ RunNextTool
    \/ RunNextStrategy
    \/ RunNextGroup
    \/ EngineReadFails
    \/ EnginePreprocess
    \/ ProcessThrowCircular
    \/ ProcessEnter
    \/ IncludeMissing
    \/ IncludeRead
    \/ ProcessReturn
    \/ SpliceResolved
    \/ Propagate
    \/ EngineCollect
    \/ EngineReject
    \/ RunTransform
    \/ RunOnFinish

SpecRun == InitEngine /\ [][NextRun]_vars

---------------------------------------------------------------------------
(* A pipeline stage that calls engine.readFile *)

\* How deep stage calls of engine.readFile are followed.
MaxNest == 3

HPath == << <<"r">>, <<"h">> >>

incAInject == Inc(<<".", "/", "a">>, InjectHeader)

\* The projects with a header file: /r/main includes /r/a through the stage
\* that reads /r/h; /r/h is not there, is plain, includes /r/a through the
\* same stage, includes itself, or includes /r/a and a file that is not there.
StageFileSystems ==
    { [p \in {MainPath, APath} \cup {q \in {HPath} : h.there} |->
          IF p = MainPath THEN <<Ch("m"), incAInject>>
          ELSE IF p = APath THEN <<Ch("a")>> ELSE h.content] :
        h \in { [there |-> FALSE, content |-> <<>>],
                [there |-> TRUE, content |-> <<Ch("h")>>],
                [there |-> TRUE, content |-> <<Ch("h"), incAInject>>],
                [there |-> TRUE, content |-> <<Inc(<<".", "/", "h">>, <<>>)>>],
                [there |-> TRUE, content |-> <<incA, incMissing>>] } }

\* The calls of engine.readFile the user makes.
StageRequests ==
    { [filePath |-> f, toolName |-> t, pipelines |-> <<>>] :
        f \in {<<"main">>, HeaderFile}, t \in Tools }

InitStage ==
    /\ files \in StageFileSystems
    /\ tool = <<"claude">>
    /\ registry = TRUE
    /\ root = MainPath
    /\ stack = <<>>
    /\ visited = {}
    /\ status = "idle"
    /\ result = <<>>
    /\ error = "none"
    /\ reads = <<>>
    /\ pipeLog = <<>>
    /\ exits = <<>>
    /\ fIn = <<>>
    /\ fTool = <<"claude">>
    /\ fOut = <<>>
    /\ fDone = TRUE
    /\ arg = <<>>
    /\ ret = <<>>
    /\ engineOp = NoOp(0)
    /\ engineLog = <<>>

RECURSIVE Nesting(_)
\* How many calls await the Engine method in progress.
Nesting(op) == IF op.outer = <<>> THEN 0 ELSE 1 + Nesting(op.outer[1].op)

ReadOnce == engineLog = <<>> /\ StartReadFile(StageRequests, 1)

\* processIncludes line 131 and executePipelines line 167: the stage is
\* called and awaits engine.readFile (README line 140); readFile resolves the
\* path (line 1558) and goes on to read and preprocess the file as for any
\* caller, while processIncludes, with its text and its visitation set, waits.
StageReadFile ==
    /\ status = "running"
    /\ Top.phase = "resolved"
    /\ callsReadFile(Top.matches[Top.idx].pipes)
    /\ engineOp.kind # "none"
    /\ Nesting(engineOp) < MaxNest
    /\ engineOp' = [NoOp(engineOp.last + 1) EXCEPT
           !.kind = "readFile",
           !.toolName = Top.toolName,
           !.phase = "files",
           !.queue = <<resolveFilePath(HeaderFile, RootPath)>>,
           !.outer = <<[op |-> engineOp, stack |-> stack, visited |-> visited,
                        root |-> root, tool |-> tool, reads |-> reads,
                        pipeLog |-> pipeLog, exits |-> exits]>>]
    /\ engineLog' = Append(engineLog,
           [event |-> "readFile", n |-> engineOp.last + 1,
            toolName |-> Top.toolName, filePath |-> HeaderFile,
            path |-> Normalize(resolveFilePath(HeaderFile, RootPath))])
    /\ stack' = <<>>
    /\ status' = "idle"
    /\ UNCHANGED <<files, tool, registry, root, visited, result, error, reads,
                   pipeLog, exits>>
    /\ UNCHANGED <<filterVars, pureVars>>

\* The stage's await is over: executePipelines returns currentContent, line
\* 141 replaces the directive with it, and the loop of the waiting
\* processIncludes goes on with its own visitation set.
StageResume(currentContent, returned) ==
    LET o == engineOp.outer[1]
        f == o.stack[Len(o.stack)]
        m == f.matches[f.idx]
    IN  /\ stack' = [o.stack EXCEPT ![Len(o.stack)] =
                [f EXCEPT !.phase = "loop",
                          !.text = Replace(f.text, m, currentContent),
                          !.resolutions = Append(f.resolutions, currentContent),
                          !.idx = f.idx + 1]]
        /\ pipeLog' = Append(o.pipeLog,
               [by |-> f.path, directive |-> m,
                call |-> [name |-> InjectHeader, params |-> <<>>,
                          content |-> f.processed, returned |-> returned]])
        /\ visited' = o.visited
        /\ root' = o.root
        /\ tool' = o.tool
        /\ reads' = o.reads
        /\ exits' = o.exits
        /\ engineOp' = [o.op EXCEPT !.last = engineOp.last]
        /\ status' = "running"
        /\ result' = <<>>
        /\ error' = "none"
        /\ UNCHANGED <<files, registry, filterVars, pureVars>>

\* readFile line 1584 and README lines 144-146: readFile returns the
\* SourceFile to the stage, which returns header.content + "\n" + content.
StageReadReturns ==
    /\ ~Outermost
    /\ engineOp.phase = "files"
    /\ BetweenDocuments
    /\ engineOp.queue = <<>>
    /\ LET content == engineOp.outer[1].stack[Len(engineOp.outer[1].stack)].processed
           header == engineOp.sourceFiles[1]
           returned == [kind |-> "content",
                        content |-> header.content \o <<Ch("\n")>> \o content]
       IN  StageResume(returned.content, returned)
    /\ engineLog' = Append(engineLog,
           [event |-> "resolved", method |-> engineOp.kind, n |-> engineOp.n,
            sourceFiles |-> engineOp.sourceFiles])

\* The readFile of the stage rejects with the error of Preprocessor.process;
\* the stage does not catch it, executePipelines does (lines 183-187), and
\* currentContent is still the content it was given.
StageReadRejects ==
    /\ ~Outermost
    /\ status = "failed"
    /\ LET content == engineOp.outer[1].stack[Len(engineOp.outer[1].stack)].processed
       IN  StageResume(content, [kind |-> "throw", content |-> <<>>])
    /\ engineLog' = Append(engineLog, Rejection(error))

\* The readFile of the stage rejects because its file cannot be read (line
\* 1560); executePipelines catches that as well.
StageReadFails ==
    /\ ~Outermost
    /\ engineOp.phase = "files"
    /\ BetweenDocuments
    /\ engineOp.queue # <<>>
    /\ topLevelRead(Head(engineOp.queue)).threw
    /\ LET content == engineOp.outer[1].stack[Len(engineOp.outer[1].stack)].processed
       IN  StageResume(content, [kind |-> "throw", content |-> <<>>])
    /\ engineLog' = Append(engineLog,
           [event |-> "rejected", method |-> engineOp.kind, n |-> engineOp.n,
            toolName |-> engineOp.toolName,
            path |-> Head(engineOp.queue), error |-> "ENOENT", inFlight |-> {}])

NextStage ==
    \/ ReadOnce
    \/ EngineReadFails
    \/ EnginePreprocess
    \/ ProcessThrowCircular
    \/ ProcessEnter
    \/ IncludeMissing
    \/ IncludeRead
    \/ ProcessReturn
    \/ SpliceResolved
    \/ Propagate
    \/ EngineCollect
    \/ EngineReject
    \/ EngineReturn
    \/ StageReadFile
    \/ StageReadReturns
    \/ StageReadRejects
    \/ StageReadFails

SpecStage == InitStage /\ [][NextStage]_vars

---------------------------------------------------------------------------
(* Properties of the visibility filter (checked under SpecFilter).  The      *)
(* regions of a text are described here by counting tags, with no reference  *)
(* to the scanning loop of processVisibility.                                *)

\* Opening tags minus closing tags among the tokens j..k of the text.
Balance(text, j, k) ==
    Cardinality({i \in j..k : IsOpen(text[i])})
        - Cardinality({i \in j..k : IsClose(text[i])})

\* The closing tag that matches the opening tag at j: the first closing tag
\* after j up to which opening and closing tags are equal in number; 0 if none.
CountMatch(text, j) ==
    LET ks == {k \in (j + 1)..Len(text) : IsClose(text[k]) /\ Balance(text, j, k) = 0}
    IN  IF ks = {} THEN 0 ELSE CHOOSE k \in ks : \A l \in ks : k <= l

\* The first opening tag of the text, 0 if it has none.
FirstOpen(text) == IndexOfKind(text, "open", 1)

\* The retention rule on the sets of tool names an opening tag lists.
IncludeSet(tag) == {AttrList(tag.inc)[i] : i \in 1..Len(AttrList(tag.inc))}

ExcludeSet(tag) == {AttrList(tag.exc)[i] : i \in 1..Len(AttrList(tag.exc))}

KeptFor(tag, t) ==
    (IncludeSet(tag) = {} \/ t \in IncludeSet(tag)) /\ t \notin ExcludeSet(tag)

\* The text has one filter region and no other tag: one opening tag, one
\* closing tag, in this order.
SingleRegion(text) ==
    /\ Cardinality({i \in 1..Len(text) : IsOpen(text[i])}) = 1
    /\ Cardinality({i \in 1..Len(text) : IsClose(text[i])}) = 1
    /\ FirstOpen(text) < IndexOfKind(text, "close", 1)

\* C7: a filter region is kept for tool T if and only if (its include list is
\* empty or absent, or T is in it) and T is not in its exclude list: the
\* filter puts the inner text of a kept region where the region was, and
\* nothing for a region that is not kept.
C7_RetentionRule ==
    (fDone /\ SingleRegion(fIn)) =>
        LET j == FirstOpen(fIn)
            k == IndexOfKind(fIn, "close", 1)
        IN  fOut = SubSeq(fIn, 1, j - 1)
                     \o (IF KeptFor(fIn[j], fTool) THEN SubSeq(fIn, j + 1, k - 1)
                         ELSE <<>>)
                     \o SubSeq(fIn, k + 1, Len(fIn))

\* A region naming the tool in include and in exclude, with inner text, was
\* filtered; so was a region with neither attribute.
C7_Witness ==
    /\ fDone
    /\ fTool = <<"claude">>
    /\ fIn = <<Ch("x"), OpenBoth, Ch("y"), Close, Ch("x")>>
    /\ fOut = <<Ch("x"), Ch("x")>>

\* Every opening tag has its closing tag and every closing tag its opening tag.
WellNested(text) ==
    /\ \A j \in 1..Len(text) : IsOpen(text[j]) => CountMatch(text, j) # 0
    /\ \A k \in 1..Len(text) : Balance(text, 1, k) >= 0
    /\ Balance(text, 1, Len(text)) = 0

\* The token at i is inside a region whose opening tag does not keep tool t.
InDropped(text, i, t) ==
    \E j \in 1..(i - 1) :
        /\ IsOpen(text[j])
        /\ CountMatch(text, j) > i
        /\ ~KeptFor(text[j], t)

\* The tokens of the text that are no tags and in no dropped region, in order.
RECURSIVE VisibleFrom(_, _, _)
VisibleFrom(text, i, t) ==
    IF i > Len(text) THEN <<>>
    ELSE (IF IsOpen(text[i]) \/ IsClose(text[i]) \/ InDropped(text, i, t)
          THEN <<>> ELSE <<text[i]>>) \o VisibleFrom(text, i + 1, t)

\* C8: a text without opening tag is returned unchanged; a text whose first
\* opening tag is closed gives the text before the tag, then the filtered inner
\* text of the region if the region is kept, then the filtered text after the
\* matching closing tag; so a properly nested text gives, in their order, the
\* tokens that lie in no dropped region.
C8_FilterDecomposition ==
    fDone =>
        LET j == FirstOpen(fIn)
            k == CountMatch(fIn, j)
        IN  /\ j = 0 => fOut = fIn
            /\ (j # 0 /\ k # 0) =>
                   fOut = SubSeq(fIn, 1, j - 1)
                            \o (IF KeptFor(fIn[j], fTool)
                                THEN processVisibility(SubSeq(fIn, j + 1, k - 1), fTool)
                                ELSE <<>>)
                            \o processVisibility(SubSeq(fIn, k + 1, Len(fIn)), fTool)
            /\ WellNested(fIn) => fOut = VisibleFrom(fIn, 1, fTool)

\* A kept region that nests another kept region with text in it was filtered.
C8_Witness ==
    /\ fDone
    /\ WellNested(fIn)
    /\ \E j, j2 \in 1..Len(fIn) :
           /\ IsOpen(fIn[j]) /\ IsOpen(fIn[j2]) /\ j < j2
           /\ CountMatch(fIn, j2) < CountMatch(fIn, j)
           /\ KeptFor(fIn[j], fTool) /\ KeptFor(fIn[j2], fTool)
           /\ j2 + 1 < CountMatch(fIn, j2)
    /\ fOut # <<>>

\* C9: if the first opening tag of a text has no matching closing tag, the
\* filter returns the text as it is.
C9_UnclosedUnmodified ==
    (fDone /\ FirstOpen(fIn) # 0 /\ CountMatch(fIn, FirstOpen(fIn)) = 0) =>
        fOut = fIn

\* A text was filtered whose first opening tag is unclosed and which holds,
\* further on, a closed region that is not kept for the tool.
C9_Witness ==
    /\ fDone
    /\ FirstOpen(fIn) # 0
    /\ CountMatch(fIn, FirstOpen(fIn)) = 0
    /\ \E j \in 1..Len(fIn) :
           /\ IsOpen(fIn[j]) /\ CountMatch(fIn, j) > j + 1
           /\ ~KeptFor(fIn[j], fTool)
    /\ fOut = fIn

---------------------------------------------------------------------------
(* Properties of process (checked under Spec).  Which directives a document  *)
(* shows to a tool, and which files include which, are described here from   *)
(* the positions of the tags, with no reference to the code's scan.          *)

\* The opening tag at j opens a region: it has its closing tag, and so has
\* every opening tag before it (after an unclosed opening tag the filter
\* leaves the text alone).
OpensRegion(text, j) ==
    /\ IsOpen(text[j])
    /\ \A j2 \in 1..j : IsOpen(text[j2]) => CountMatch(text, j2) # 0

\* The token at i lies inside a filter region that is dropped for tool t.
InDroppedRegion(text, i, t) ==
    \E j \in 1..(i - 1) :
        /\ OpensRegion(text, j)
        /\ CountMatch(text, j) > i
        /\ ~KeptFor(text[j], t)

\* The token at i is a tag of a region.
RegionTag(text, i) ==
    \/ OpensRegion(text, i)
    \/ /\ IsClose(text[i])
       /\ \E j \in 1..(i - 1) : OpensRegion(text, j) /\ CountMatch(text, j) = i

RECURSIVE LiveDirectivesFrom(_, _, _)
\* The include directives of a document outside its dropped regions, in order.
LiveDirectivesFrom(text, i, t) ==
    IF i > Len(text) THEN <<>>
    ELSE (IF IsInc(text[i]) /\ ~InDroppedRegion(text, i, t)
          THEN <<text[i]>> ELSE <<>>) \o LiveDirectivesFrom(text, i + 1, t)

LiveDirectives(text, t) == LiveDirectivesFrom(text, 1, t)

RECURSIVE ByPositionFrom(_, _, _)
\* The tokens that are no region tags and lie in no dropped region, in order.
ByPositionFrom(text, i, t) ==
    IF i > Len(text) THEN <<>>
    ELSE (IF RegionTag(text, i) \/ InDroppedRegion(text, i, t)
          THEN <<>> ELSE <<text[i]>>) \o ByPositionFrom(text, i + 1, t)

\* The filter removes the tags of the regions and the dropped regions, and
\* nothing else (this ties the description by positions to the code).
FilterByPosition == fDone => fOut = ByPositionFrom(fIn, 1, fTool)


\* The files a document at path f includes for tool t: the readable targets of
\* its directives outside dropped regions.
Targets(f, t) ==
    LET ds == LiveDirectives(files[f], t)
    IN  {Normalize(resolvePath(ds[i].path, RootPath, f)) : i \in 1..Len(ds)}
            \cap DOMAIN files

RECURSIVE Closure(_, _, _)
\* The files reached from the files of S along at most n inclusions.
Closure(S, t, n) ==
    IF n = 0 THEN S
    ELSE Closure(S \cup UNION {Targets(f, t) : f \in S}, t, n - 1)

\* The file at f includes itself, directly or through a chain of files.
IncludesItself(f, t) == f \in Closure(Targets(f, t), t, Cardinality(DOMAIN files))

\* The expansion of the root document meets a file that includes itself.
CycleReachable ==
    \E f \in Closure({root}, tool, Cardinality(DOMAIN files)) : IncludesItself(f, tool)

\* The process calls in flight that have passed the cycle check.
Entered == {i \in 1..Len(stack) : stack[i].phase # "enter"}

Finished == status \in {"done", "failed"}

\* The record of the top-level call, once it has ended.
RootExit == exits[Len(exits)]

RECURSIVE InPlaceFrom(_, _, _, _)
\* The text in which the k-th, (k+1)-th, ... directive from position i on is
\* replaced, where it stands, by res[k], res[k+1], ...; directives beyond the
\* end of res, and all other tokens, stay.
InPlaceFrom(text, i, res, k) ==
    IF i > Len(text) THEN <<>>
    ELSE IF IsInc(text[i]) /\ k <= Len(res)
         THEN res[k] \o InPlaceFrom(text, i + 1, res, k + 1)
    ELSE <<text[i]>> \o InPlaceFrom(text, i + 1, res, k)

InPlace(text, res) == InPlaceFrom(text, 1, res, 1)


\* C1: process fails with CircularDependency whenever the path of its file is
\* in the visitation set at entry, so no file is ever expanded inside its own
\* expansion; and when the root document reaches a file that includes itself,
\* directly or through a chain of readable files, by directives outside
\* dropped regions, the top-level call ends with that error, not with content.
C1_CircularDependency ==
    /\ \A k \in 1..Len(exits) : exits[k].path \in exits[k].entry => exits[k].threw
    /\ \A i \in Entered : stack[i].path \notin stack[i].entry
    /\ \A i, j \in Entered : i # j => stack[i].path # stack[j].path
    /\ (Finished /\ CycleReachable) =>
           (status = "failed" /\ error = "CircularDependency")

\* The top-level call failed on a cycle through two files: the call that threw
\* found main, a and b in flight.
C1_Witness ==
    /\ status = "failed"
    /\ error = "CircularDependency"
    /\ \E k \in 1..Len(exits) :
           /\ exits[k].threw
           /\ exits[k].path \in exits[k].entry
           /\ exits[k].entry = {MainPath, APath, BPath}

\* C2: when a process call ends, whether it returns or fails, the visitation
\* set holds exactly the paths it held when the call was entered.
C2_VisitationRestored ==
    \A k \in 1..Len(exits) : exits[k].exit = exits[k].entry

\* Where a read or a stage call came from: a directive of the reading
\* document outside its dropped regions.
FromLiveDirective(by, directive) ==
    \E i \in 1..Len(files[by]) :
        /\ files[by][i] = directive
        /\ ~InDroppedRegion(files[by], i, tool)

\* C3: an include directive inside a filter region dropped for the tool never
\* causes a file read, a recursive call or a pipeline invocation, at any depth:
\* the directives a process call resolves are those its content holds outside
\* dropped regions, in their order, and every read and every stage call comes
\* from one of them.
C3_FilterBeforeInclude ==
    /\ \A i \in Entered : stack[i].matches = LiveDirectives(stack[i].raw, tool)
    /\ \A k \in 1..Len(reads) : FromLiveDirective(reads[k].by, reads[k].directive)
    /\ \A k \in 1..Len(pipeLog) :
           FromLiveDirective(pipeLog[k].by, pipeLog[k].directive)

\* The call returned; /r/a, included by the root document, includes itself
\* inside a region dropped for the tool, and /r/a never read a file.
C3_Witness ==
    /\ status = "done"
    /\ tool = <<"claude">>
    /\ APath \in DOMAIN files
    /\ files[APath] = <<OpenRoo, incA, Close, Ch("a")>>
    /\ \E k \in 1..Len(reads) : Normalize(reads[k].path) = APath
    /\ \A k \in 1..Len(reads) : reads[k].by # APath

\* Two sibling directives of the root document name the same readable file.
SiblingIncludes ==
    LET ds == LiveDirectives(files[root], tool)
    IN  \E i, j \in 1..Len(ds) :
            /\ i < j
            /\ Normalize(resolvePath(ds[i].path, RootPath, root))
                   = Normalize(resolvePath(ds[j].path, RootPath, root))
            /\ Readable(resolvePath(ds[i].path, RootPath, root))

\* C4: the same file included by two or more sibling directives of a document
\* (no file of which includes itself) never triggers CircularDependency: the
\* call succeeds and the result holds the resolved content of the file once
\* for each directive, where the directive stood.
C4_SiblingIncludesSucceed ==
    (Finished /\ SiblingIncludes /\ ~CycleReachable) =>
        /\ status = "done"
        /\ result = InPlace(RootExit.filtered, RootExit.resolutions)

\* Sibling includes alone cause no failure (the part of C4 the code keeps).
C4_NoCircularDependency ==
    (Finished /\ SiblingIncludes /\ ~CycleReachable) => status = "done"

\* The markers of the first n directives of a list.
Markers(matches, n) == [k \in 1..n |-> missingFileMarker(matches[k].path)]

\* None of the first n directives of the call names a readable file.
AllMissing(f, n) ==
    \A k \in 1..n : ~Readable(resolvePath(f.matches[k].path, RootPath, f.path))

\* C5: a directive whose file cannot be read is replaced, where it stands, by
\* the literal text [MISSING FILE: P], P being its path literal; no error is
\* raised and the later directives of the document are still resolved.
C5_MissingFileMarker ==
    /\ \A i \in Entered :
           LET n == Len(stack[i].resolutions)
           IN  AllMissing(stack[i], n) =>
                   stack[i].text = InPlace(stack[i].filtered, Markers(stack[i].matches, n))
    /\ \A k \in 1..Len(exits) :
           (~exits[k].threw /\ AllMissing(exits[k], Len(exits[k].matches))) =>
               /\ Len(exits[k].resolutions) = Len(exits[k].matches)
               /\ exits[k].text = InPlace(exits[k].filtered,
                                          Markers(exits[k].matches, Len(exits[k].matches)))

\* C6: a top-level call fails only with CircularDependency, and only when the
\* expansion meets a file that includes itself: missing files, unknown or
\* throwing stages and unclosed filter tags never make it fail; an error in
\* flight is never turned into content: no call that ended with an error is
\* followed by a result.
C6_OnlyCircularDependencyFails ==
    /\ status \in {"throwing", "failed"} =>
           (error = "CircularDependency" /\ CycleReachable)
    /\ status \notin {"throwing", "failed"} =>
           (error = "none" /\ \A k \in 1..Len(exits) : ~exits[k].threw)

\* The call returned although a file was missing, a stage threw, a stage was
\* unknown and the first filter tag of the root document was unclosed.
C6_Witness ==
    /\ status = "done"
    /\ \E k \in 1..Len(reads) : ~reads[k].ok
    /\ \E k \in 1..Len(pipeLog) : pipeLog[k].call.name = <<"boom">>
    /\ \E k \in 1..Len(reads) :
           \E n \in 1..Len(parsePipelineString(reads[k].directive.pipes)) :
               parsePipelineString(reads[k].directive.pipes)[n].name = <<"nostage">>
    /\ FirstOpen(files[root]) # 0
    /\ CountMatch(files[root], FirstOpen(files[root])) = 0

\* C10: the result of include resolution is the filtered text in which every
\* directive, where it stands, is replaced by the resolved content of its own
\* file, the text between directives unchanged.
C10_SpliceInPlace ==
    /\ \A i \in Entered :
           stack[i].text = InPlace(stack[i].filtered, stack[i].resolutions)
    /\ \A k \in 1..Len(exits) :
           ~exits[k].threw =>
               exits[k].text = InPlace(exits[k].filtered, exits[k].resolutions)

---------------------------------------------------------------------------
(* Order of resolution (checked under Spec) *)

RECURSIVE ReadOrderFrom(_, _, _, _)
\* The file reads of a depth-first, left-to-right walk of the expansion tree:
\* the reads made for the directives ds[k], ds[k+1], ... of the document at f,
\* onPath being the files on the way from the root document to f.  A directive
\* is followed by the reads of the whole expansion of its file before the next
\* directive is looked at; the walk ends where a file of onPath comes up again.
ReadOrderFrom(f, ds, k, onPath) ==
    IF k > Len(ds) THEN [seq |-> <<>>, threw |-> FALSE]
    ELSE LET target == Normalize(resolvePath(ds[k].path, RootPath, f))
             here == <<[by |-> f, directive |-> ds[k]]>>
         IN  IF target \notin DOMAIN files
             THEN LET rest == ReadOrderFrom(f, ds, k + 1, onPath)
                  IN  [seq |-> here \o rest.seq, threw |-> rest.threw]
             ELSE IF target \in onPath THEN [seq |-> here, threw |-> TRUE]
             ELSE LET sub == ReadOrderFrom(target, LiveDirectives(files[target], tool),
                                           1, onPath \cup {target})
                  IN  IF sub.threw THEN [seq |-> here \o sub.seq, threw |-> TRUE]
                      ELSE LET rest == ReadOrderFrom(f, ds, k + 1, onPath)
                           IN  [seq |-> here \o sub.seq \o rest.seq,
                                threw |-> rest.threw]

\* The walk of the whole expansion tree of the root document.
ReadOrder == ReadOrderFrom(root, LiveDirectives(files[root], tool), 1, {root}).seq

\* The reads made so far: who read, for which directive.
ReadsMade == [k \in 1..Len(reads) |-> [by |-> reads[k].by, directive |-> reads[k].directive]]

IsPrefix(a, b) == Len(a) <= Len(b) /\ a = SubSeq(b, 1, Len(a))

\* C11: the directives of a document are resolved one at a time from left to
\* right: the files are read in the order of a depth-first, left-to-right walk
\* of the expansion tree; only the innermost call is at work, every call below
\* it waits for the directive it is at; when a call turns to a directive, every
\* directive before it has its replacement, and every stage that has run
\* belongs to a finished call or to a directive before the current one.
C11_LeftToRightDepthFirst ==
    /\ IsPrefix(ReadsMade, ReadOrder)
    /\ Finished => ReadsMade = ReadOrder
    /\ \A i \in 1..(Len(stack) - 1) : stack[i].phase = "await"
    /\ \A i \in Entered : Len(stack[i].resolutions) = stack[i].idx - 1
    /\ \A k \in 1..Len(pipeLog) :
           \A i \in Entered :
               stack[i].path = pipeLog[k].by =>
                   \E j \in 1..(stack[i].idx - 1) :
                       stack[i].matches[j] = pipeLog[k].directive

\* The call returned after the root document's first directive led two files
\* deep and its second directive was read after that.
C11_Witness ==
    /\ status = "done"
    /\ Len(reads) >= 3
    /\ reads[1].by = MainPath
    /\ reads[2].by = APath
    /\ Normalize(reads[2].path) = BPath
    /\ reads[3].by = MainPath
    /\ reads[3].directive = files[MainPath][Len(files[MainPath])]
    /\ reads[1].directive # reads[3].directive

---------------------------------------------------------------------------
(* Included content (checked under Spec) *)

\* The tokens of a text.
TokensOf(text) == {text[i] : i \in 1..Len(text)}

\* The included documents: the files other than the root document.
Included == DOMAIN files \ {root}

\* What a file may show to the top-level tool: the tokens outside its
\* dropped regions.
ShownBy(f) == TokensOf(ByPositionFrom(files[f], 1, tool))

\* What stages and missing-file markers may bring in of their own.
BroughtIn ==
    (UNION {TokensOf(PipelineFn(n, <<>>, <<>>).content) : n \in PipelineNames})
        \cup UNION {TokensOf(missingFileMarker(d.path)) :
                       d \in UNION {{tok \in TokensOf(files[f]) : IsInc(tok)} :
                                       f \in DOMAIN files}}

\* What only dropped regions of included files hold: tokens some included
\* file has in a region dropped for the top-level tool, that no file has
\* outside such a region and no stage or marker brings in.
HiddenTokens ==
    (UNION {TokensOf(files[f]) \ ShownBy(f) : f \in Included})
        \ (BroughtIn \cup UNION {ShownBy(f) : f \in DOMAIN files})

\* The replacement of directive m whose file was resolved to the text t.
Piped(m, t) ==
    IF m.pipes # <<>> /\ registry THEN executePipelines(t, m.pipes).content ELSE t

\* C12: at every depth the content of a file is run through the visibility
\* filter with the tool name of the top-level call and then through include
\* resolution: what a call works on is its content without the regions
\* dropped for the top-level tool; text that files show only in regions
\* dropped for that tool never appears in the output; and the replacement of
\* a directive for a readable file, in whatever document it stands, is what a
\* finished process call on that file returned (after the directive's
\* pipelines), all the directives of that file resolved in turn.
C12_FullProcessAtEveryDepth ==
    /\ \A i \in Entered :
           /\ stack[i].toolName = tool
           /\ stack[i].filtered = ByPositionFrom(stack[i].raw, 1, tool)
    /\ \A k \in 1..Len(exits) :
           ~exits[k].threw =>
               /\ exits[k].filtered = ByPositionFrom(exits[k].raw, 1, tool)
               /\ exits[k].matches = LiveDirectives(exits[k].raw, tool)
               /\ Len(exits[k].resolutions) = Len(exits[k].matches)
               /\ \A j \in 1..Len(exits[k].matches) :
                      LET m == exits[k].matches[j]
                          target == Normalize(resolvePath(m.path, RootPath, exits[k].path))
                      IN  target \in DOMAIN files =>
                              \E c \in 1..(k - 1) :
                                  /\ exits[c].path = target
                                  /\ ~exits[c].threw
                                  /\ exits[c].raw = files[target]
                                  /\ exits[k].resolutions[j] = Piped(m, exits[c].text)
    /\ status = "done" => TokensOf(result) \cap HiddenTokens = {}

\* The call for tool roo returned; the root document includes /r/a, /r/a
\* includes /r/d/b, and of the two regions of /r/d/b the output holds the
\* text of the region roo may see and not the text of the region for claude.
C12_Witness ==
    /\ status = "done"
    /\ tool = <<"roo">>
    /\ \E k \in 1..Len(reads) : reads[k].by = APath /\ Normalize(reads[k].path) = BPath
    /\ Ch("for claude") \in TokensOf(files[BPath])
    /\ Ch("for claude") \in HiddenTokens
    /\ Ch("not for claude") \in TokensOf(result)
    /\ Ch("for claude") \notin TokensOf(result)

---------------------------------------------------------------------------
(* Termination (checked under SpecFair) *)

\* The number of distinct files.
NumFiles == Cardinality(DOMAIN files)

\* How a top-level call may end.
EndsAsSpecified ==
    Finished => \/ status = "done" /\ error = "none"
                \/ status = "failed" /\ error = "CircularDependency"

\* The nesting of process calls as the claim bounds it: never more calls in
\* flight than there are files.
DepthWithinFiles == Len(stack) <= NumFiles

\* The nesting the code keeps to: the calls that passed the cycle check are
\* calls for different files, so there are at most as many as files; one more
\* call may be in flight on top of them, the one that is about to fail at
\* its cycle check.
DepthWithinFilesPlusOne ==
    /\ Cardinality(Entered) <= NumFiles
    /\ Len(stack) <= NumFiles + 1
    /\ Len(stack) = NumFiles + 1 => Top.phase = "enter" /\ Top.path \in visited

\* C13 as stated: the top-level call ends, with content or with
\* CircularDependency, and never has more nested process calls in flight
\* than there are distinct files.
C13_AsStated == <>Finished /\ []EndsAsSpecified /\ []DepthWithinFiles

\* C13: whatever graph the include directives of a finite set of files form,
\* the top-level call ends, with the resolved content or with
\* CircularDependency; the process calls that passed their cycle check never
\* outnumber the distinct files, and the nesting of calls never exceeds that
\* number plus one, the one call on top being the call that fails at entry.
C13_Terminates == <>Finished /\ []EndsAsSpecified /\ []DepthWithinFilesPlusOne

\* A cycle through all three files: four process calls are in flight, the
\* innermost one for the root document again.
C13_Witness ==
    /\ NumFiles = 3
    /\ Len(stack) = 4
    /\ Top.path = root
    /\ Top.phase = "enter"
    /\ visited = DOMAIN files

---------------------------------------------------------------------------
(* Paths of include directives (checked under Spec).  Where a literal leads *)
(* is described here by walking it segment by segment from a directory.     *)

\* The segments of a path literal, the "/" between them left out.
Segments(literal) == SplitOn(literal, "/")

RECURSIVE Walk(_, _)
\* The place reached from the directory dir along the segments segs: "." and
\* an empty segment stay, ".." goes up (the root is its own parent), a name
\* goes down.
Walk(dir, segs) ==
    IF segs = <<>> THEN dir
    ELSE LET seg == Head(segs)
             next == IF seg = <<>> \/ seg = <<".">> THEN dir
                     ELSE IF seg = <<"..">>
                          THEN (IF dir = <<>> THEN dir ELSE SubSeq(dir, 1, Len(dir) - 1))
                     ELSE Append(dir, seg)
         IN  Walk(next, Tail(segs))

\* The directory of a file.
Parent(p) == SubSeq(p, 1, Len(p) - 1)

RECURSIVE PathText(_)
\* A path written out, a "/" before each segment.
PathText(p) == IF p = <<>> THEN <<>> ELSE <<"/">> \o Head(p) \o PathText(Tail(p))

\* The literal starts with "/".
AbsoluteLiteral(lit) == lit # <<>> /\ Head(lit) = "/"

\* The literal starts with "@/".
RootLiteral(lit) == Len(lit) >= 2 /\ SubSeq(lit, 1, 2) = <<"@", "/">>

\* C14: the file an include directive reads is, for an absolute literal, the
\* path as it is written; for a literal that starts with @/, the place its
\* rest leads to from the project root; for any other literal, the place it
\* leads to from the directory of the file the directive stands in, whatever
\* document is the top-level one and however that file was reached.
C14_IncludePathResolution ==
    \A k \in 1..Len(reads) :
        LET lit == reads[k].directive.path
            by == reads[k].by
        IN  /\ AbsoluteLiteral(lit) => PathText(reads[k].path) = lit
            /\ (~AbsoluteLiteral(lit) /\ RootLiteral(lit)) =>
                   reads[k].path = Walk(RootPath, Segments(SubSeq(lit, 3, Len(lit))))
            /\ (~AbsoluteLiteral(lit) /\ ~RootLiteral(lit)) =>
                   reads[k].path = Walk(Parent(by), Segments(lit))
            /\ reads[k].ok = (Walk(<<>>, reads[k].path) \in DOMAIN files)

\* /r/a was reached by a literal that starts with @/, /r/d/b from /r/a, and
\* a directive of /r/d/b with a bare relative literal read /r/a: a file the
\* literal leads to from /r/d and neither from the project root nor from the
\* directory of the top-level document.
C14_Witness ==
    /\ Len(reads) >= 3
    /\ RootLiteral(reads[1].directive.path)
    /\ reads[2].by = APath /\ reads[2].path = BPath
    /\ reads[3].by = BPath
    /\ ~AbsoluteLiteral(reads[3].directive.path)
    /\ ~RootLiteral(reads[3].directive.path)
    /\ reads[3].path = APath
    /\ reads[3].ok
    /\ Walk(RootPath, Segments(reads[3].directive.path)) # APath
    /\ Walk(Parent(root), Segments(reads[3].directive.path)) # APath

---------------------------------------------------------------------------
(* Paths of Engine.readFile (checked under SpecPaths) *)

\* The literal is neither absolute nor root-relative.
BareLiteral(lit) == ~AbsoluteLiteral(lit) /\ ~RootLiteral(lit)

\* C15: the path Engine.readFile reads is, for an absolute literal, the path
\* as it is written; for a literal that starts with @/, the place its rest
\* leads to from the project root; for a bare relative literal, the place it
\* leads to from the project root, whatever file is current; an include
\* directive with the same bare literal reads the place it leads to from the
\* directory of the file it stands in.
C15_ReadFilePathResolution ==
    LET lit == arg.filePath
    IN  /\ "resolveFilePath" \in DOMAIN ret =>
               LET got == ret["resolveFilePath"]
               IN  /\ AbsoluteLiteral(lit) => PathText(got) = lit
                   /\ (~AbsoluteLiteral(lit) /\ RootLiteral(lit)) =>
                          got = Walk(RootPath, Segments(SubSeq(lit, 3, Len(lit))))
                   /\ BareLiteral(lit) => got = Walk(RootPath, Segments(lit))
        /\ ("resolvePath" \in DOMAIN ret /\ BareLiteral(lit)) =>
               ret["resolvePath"] = Walk(Parent(arg.currentFilePath), Segments(lit))

\* The bare literal "a", with /r/d/b as the current file: readFile reads /r/a,
\* an include directive of /r/d/b reads /r/d/a.
C15_Witness ==
    /\ DOMAIN ret = {"resolvePath", "resolveFilePath"}
    /\ arg.filePath = <<"a">>
    /\ arg.currentFilePath = BPath
    /\ ret["resolveFilePath"] = APath
    /\ ret["resolvePath"] = << <<"r">>, <<"d">>, <<"a">> >>

---------------------------------------------------------------------------
(* parsePipelineString (checked under SpecParse).  The stages of a          *)
(* specification are described here from the positions of its commas and    *)
(* parentheses, with no reference to the loop of the code.                  *)

\* How many of the first i characters of s are the character c.
CountOf(s, c, i) == Cardinality({j \in 1..i : s[j] = c})

\* The parenthesis depth after the first i characters.
DepthAt(s, i) == CountOf(s, "(", i) - CountOf(s, ")", i)

\* The commas at depth 0.
TopCommas(s) == {i \in 1..Len(s) : s[i] = "," /\ DepthAt(s, i) = 0}

\* All the commas.
AllCommas(s) == {i \in 1..Len(s) : s[i] = ","}

RECURSIVE PiecesFrom(_, _, _)
\* The pieces of s from position start on, cut at the positions of cuts.
PiecesFrom(s, start, cuts) ==
    LET ahead == {c \in cuts : c >= start}
    IN  IF ahead = {} THEN <<SubSeq(s, start, Len(s))>>
        ELSE LET c == CHOOSE x \in ahead : \A y \in ahead : x <= y
             IN  <<SubSeq(s, start, c - 1)>> \o PiecesFrom(s, c + 1, cuts)

\* s from its first to its last character that is no blank.
Strip(s) ==
    LET solid == {i \in 1..Len(s) : s[i] # " "}
    IN  IF solid = {} THEN <<>>
        ELSE SubSeq(s, CHOOSE i \in solid : \A j \in solid : i <= j,
                       CHOOSE i \in solid : \A j \in solid : i >= j)

\* The strings of a list that are not empty once stripped, each stripped.
Solid(list) ==
    LET stripped == [i \in 1..Len(list) |-> Strip(list[i])]
    IN  SelectSeq(stripped, LAMBDA x : x # <<>>)

\* The stage a segment stands for.
StageOf(segment) ==
    LET t == Strip(segment)
        opens == {i \in 1..Len(t) : t[i] = "("}
    IN  IF opens # {} /\ t[Len(t)] = ")"
        THEN LET first == CHOOSE i \in opens : \A j \in opens : i <= j
                 inner == SubSeq(t, first + 1, Len(t) - 1)
             IN  [name |-> Strip(SubSeq(t, 1, first - 1)),
                  params |-> Solid(PiecesFrom(inner, 1, AllCommas(inner)))]
        ELSE [name |-> t, params |-> <<>>]

\* The stages of a specification, in the order of the text.
StagesOf(s) ==
    LET segments == Solid(PiecesFrom(s, 1, TopCommas(s)))
    IN  [i \in 1..Len(segments) |-> StageOf(segments[i])]

\* C16: parsePipelineString cuts the specification at the commas at
\* parenthesis depth 0 and at no other, drops the segments that are empty or
\* blank, and gives one stage per segment, in the order of the text: for a
\* segment that ends with ")" and holds a "(", the stripped text before the
\* first "(" as name and the stripped, non-empty pieces between that "(" and
\* the final ")", cut at commas, as params; for any other segment the stripped
\* segment as name and no params.
C16_ParsePipelineString ==
    "parsePipelineString" \in DOMAIN ret =>
        ret["parsePipelineString"] = StagesOf(arg.input)

\* "a(,b)" was parsed: its comma lies inside the parentheses, and the result
\* is the one stage a with the one parameter b.
C16_Witness ==
    /\ "parsePipelineString" \in DOMAIN ret
    /\ arg.input = <<"a", "(", ",", "b", ")">>
    /\ AllCommas(arg.input) # {} /\ TopCommas(arg.input) = {}
    /\ ret["parsePipelineString"] = <<[name |-> <<"a">>, params |-> <<<<"b">>>>]>>

---------------------------------------------------------------------------
(* executePipelines (checked under SpecPipelines) *)

\* What the call of executePipelines returned, once it has.
Executed == "executePipelines" \in DOMAIN ret

Outcome == ret["executePipelines"]

\* The stages of the specification given to executePipelines, read off the
\* text, and those of them the registry holds.
GivenStages == StagesOf(arg.pipelinesStr)

RegisteredStages == SelectSeq(GivenStages, LAMBDA st : st.name \in PipelineNames)

\* The invocations of registered stages among the invocations made.
RegisteredCalls == SelectSeq(Outcome.calls, LAMBDA c : c.name \in PipelineNames)

\* The invocations that returned string content.
ContentCalls == SelectSeq(Outcome.calls, LAMBDA c : c.returned.kind = "content")

RECURSIVE Chain(_, _, _, _)
\* The stages k, k+1, ..., n applied one after the other, each to what the
\* one before it left; a stage that is not registered, throws or returns
\* nothing leaves the content as it is.
Chain(content, stages, k, n) ==
    IF k > n THEN content
    ELSE LET st == stages[k]
             r == PipelineFn(st.name, content, st.params)
         IN  Chain(IF st.name \in PipelineNames /\ r.kind = "content"
                   THEN r.content ELSE content,
                   stages, k + 1, n)

\* C18: pipelines are chained: every registered stage after the first is given
\* the output of the stages before it, and the final content is the
\* composition, from left to right, of the stages applied to the content
\* executePipelines was given.
C18_Chained ==
    Executed =>
        /\ Outcome.content = Chain(arg.content, GivenStages, 1, Len(GivenStages))
        /\ \A k \in 1..Len(RegisteredCalls) :
               RegisteredCalls[k].content = Chain(arg.content, RegisteredStages, 1, k - 1)

RECURSIVE Kept(_, _, _, _, _)
\* The content after the stages k, k+1, ...: a stage whose name is not among
\* known, a stage that throws and a stage that returns no string content
\* leave it as it is, any other stage puts what it returns for the given
\* content in its place.
Kept(given, current, stages, k, known) ==
    IF k > Len(stages) THEN current
    ELSE LET st == stages[k]
             r == PipelineFn(st.name, given, st.params)
         IN  Kept(given,
                  IF st.name \in known /\ r.kind = "content" THEN r.content ELSE current,
                  stages, k + 1, known)

\* C19: a stage whose name is not in the registry, a stage that throws and a
\* stage that returns no string content each leave the current content as it
\* was before that stage; the stages after it still run, and executePipelines
\* does not fail.
C19_SkippedStagesLeaveContent ==
    Executed =>
        /\ ~Outcome.threw
        /\ Len(RegisteredCalls) = Len(RegisteredStages)
        /\ Outcome.content = Kept(arg.content, arg.content, GivenStages, 1, PipelineNames)

\* The same for the names the lookup availablePipelines[name] finds nothing
\* for (the part of C19 the code keeps).
C19_ForNamesNotFound ==
    Executed =>
        /\ ~Outcome.threw
        /\ Len(RegisteredCalls) = Len(RegisteredStages)
        /\ Outcome.content = Kept(arg.content, arg.content, GivenStages, 1,
                                 PipelineNames \cup ObjectPrototypeNames)

---------------------------------------------------------------------------
(* Visitation sets of the Engine's documents (checked under SpecEngine)     *)

\* The top-level process call the Engine made for its current document.
TopLevelEntered == stack # <<>> /\ stack[1].phase # "enter"

\* The current document's top-level call has ended.
TopLevelEnded == stack = <<>> /\ exits # <<>>

\* The rejections the log holds that left files in their visitation set.
LeftInFlight == {k \in 1..Len(engineLog) :
                    /\ engineLog[k].event = "rejected"
                    /\ engineLog[k].inFlight # {}}

\* C20: every document the Engine preprocesses (in run, readFile, readFiles)
\* starts with an empty visitation set of its own: the set of a document
\* holds only files in flight on its own include chain, whatever an earlier
\* document left in its set; so a document fails with CircularDependency only
\* when its own includes reach a file that includes itself.
C20_OneSetPerDocument ==
    /\ TopLevelEntered => stack[1].entry = {}
    /\ TopLevelEnded => (RootExit.path = root /\ RootExit.entry = {})
    /\ \A i \in Entered : stack[i].entry = {stack[j].path : j \in 1..(i - 1)}
    /\ (engineOp.kind # "none" /\ status = "failed" /\ error = "CircularDependency")
           => CycleReachable

\* A document failed and left its files in its visitation set; a later
\* document of the same Engine went through one of those files and ended with
\* content.
C20_Witness ==
    /\ engineOp.kind # "none"
    /\ status = "done"
    /\ \E k \in LeftInFlight :
       \E e \in 1..Len(exits) :
           /\ exits[e].path \in engineLog[k].inFlight
           /\ ~exits[e].threw

---------------------------------------------------------------------------
(* Engine.run: transforms, onFinish and failures (checked under SpecRun)    *)

\* The calls of run so far, by their number in the Engine's life.
Runs == {engineLog[k].n : k \in {j \in 1..Len(engineLog) : engineLog[j].event = "run"}}

\* What the log holds of call n.
LogOf(n) == SelectSeq(engineLog, LAMBDA e : e.n = n)

\* The entries of one kind among them.
EventsOf(n, kind) == SelectSeq(LogOf(n), LAMBDA e : e.event = kind)

\* config.tools of run n
ToolsOf(n) == EventsOf(n, "run")[1].tools

Resolved(n) == EventsOf(n, "resolved") # <<>>

Rejected(n) == EventsOf(n, "rejected") # <<>>

\* The directories of a list of files.
DirsOf(filePaths) == {Parent(filePaths[i]) : i \in 1..Len(filePaths)}

\* The strategy of a tool was carried through in run n: its files were looked
\* for, and transform was called for every directory that holds one of them.
CarriedThrough(n, toolName, strategyName) ==
    \E f \in 1..Len(EventsOf(n, "found")) :
        LET found == EventsOf(n, "found")[f]
        IN  /\ found.toolName = toolName
            /\ found.strategy = strategyName
            /\ \A dir \in DirsOf(found.filePaths) :
                   \E t \in 1..Len(EventsOf(n, "transform")) :
                       LET call == EventsOf(n, "transform")[t]
                       IN  /\ call.toolName = toolName
                           /\ call.strategy = strategyName
                           /\ call.dir = dir

\* C21: run isolates the failures of transform and onFinish: a run rejects
\* only with the error of a document it reads and preprocesses, never with
\* that of a transform or an onFinish; and a run that resolved has carried every
\* strategy of every tool through, for every directory group, and has called
\* the onFinish of every tool that has one, whichever transforms and
\* onFinish hooks threw on the way.
C21_TransformFailuresIsolated ==
    \A n \in Runs :
        /\ \A k \in 1..Len(EventsOf(n, "rejected")) :
               EventsOf(n, "rejected")[k].error \in {"CircularDependency", "ENOENT"}
        /\ (engineOp.n = n /\ engineOp.kind = "none") => (Resolved(n) \/ Rejected(n))
        /\ Resolved(n) =>
               \A t \in 1..Len(ToolsOf(n)) :
                   LET toolConfig == ToolsOf(n)[t]
                   IN  /\ \A i \in 1..Len(toolConfig.strategies) :
                              CarriedThrough(n, toolConfig.name,
                                             toolConfig.strategies[i].name)
                       /\ toolConfig.onFinish # "none" =>
                              \E k \in 1..Len(EventsOf(n, "onFinish")) :
                                  EventsOf(n, "onFinish")[k].toolName = toolConfig.name

\* A run resolved in which the transform threw for the first of two
\* directory groups and was called for the second, the same tool's next
\* strategy ran and its onFinish was called and threw, and the next tool's
\* transform and onFinish were called after that.
C21_Witness ==
    \E n \in Runs :
        /\ Resolved(n)
        /\ \E i, j, k, l, m \in 1..Len(LogOf(n)) :
               /\ i < j /\ j < k /\ k < l /\ l < m
               /\ LogOf(n)[i].event = "transform" /\ LogOf(n)[i].result.threw
               /\ LogOf(n)[j].event = "transform"
               /\ LogOf(n)[j].strategy = LogOf(n)[i].strategy
               /\ LogOf(n)[j].dir # LogOf(n)[i].dir
               /\ LogOf(n)[k].event = "onFinish" /\ LogOf(n)[k].result.threw
               /\ LogOf(n)[k].toolName = LogOf(n)[i].toolName
               /\ LogOf(n)[l].event = "transform"
               /\ LogOf(n)[l].toolName # LogOf(n)[i].toolName
               /\ LogOf(n)[m].event = "onFinish"
               /\ LogOf(n)[m].toolName = LogOf(n)[l].toolName

\* The positions in the log of run n of the entries of one kind for a tool.
PositionsOf(n, kind, toolName) ==
    {k \in 1..Len(LogOf(n)) :
        LogOf(n)[k].event = kind /\ LogOf(n)[k].toolName = toolName}

\* The position of a tool in config.tools of run n.
ToolIndex(n, toolName) ==
    CHOOSE t \in 1..Len(ToolsOf(n)) : ToolsOf(n)[t].name = toolName

RECURSIVE ReturnedFrom(_, _, _, _)
\* The metadata values the transforms of a tool returned, in the order the
\* transforms ran, from entry k of the log of run n on; keep says which
\* values count.
ReturnedFrom(n, toolName, k, keep) ==
    IF k > Len(LogOf(n)) THEN <<>>
    ELSE LET e == LogOf(n)[k]
             here == IF /\ e.event = "transform"
                        /\ e.toolName = toolName
                        /\ ~e.result.threw
                     THEN SelectSeq(e.result.metadata, LAMBDA v : v.js \in keep)
                     ELSE <<>>
         IN  here \o ReturnedFrom(n, toolName, k + 1, keep)

\* The JavaScript values a metadata may be in the model, and the truthy ones.
MetadataValues == {"object", "0"}

TruthyValues == {"object"}

\* onFinish of a tool was called once, after everything of that tool and
\* before anything of the tools after it, with the metadata values of that
\* tool's transforms that are among keep.
OnFinishOnceWith(n, toolName, keep) ==
    /\ Cardinality(PositionsOf(n, "onFinish", toolName)) = 1
    /\ \A k \in PositionsOf(n, "onFinish", toolName) :
           /\ \A j \in PositionsOf(n, "transform", toolName)
                        \cup PositionsOf(n, "found", toolName) : j < k
           /\ \A j \in 1..Len(LogOf(n)) :
                  (/\ LogOf(n)[j].event \in {"found", "transform", "onFinish"}
                   /\ ToolIndex(n, LogOf(n)[j].toolName) > ToolIndex(n, toolName))
                      => j > k
           /\ LogOf(n)[k].metadata = ReturnedFrom(n, toolName, 1, keep)

\* C22: for each tool that defines onFinish, run calls it exactly once, after
\* all transforms of all strategies of that tool and before the next tool
\* starts, with the list of the metadata values returned by that tool's
\* successful transforms, in the order the transforms ran, and with no
\* metadata of another tool.
C22_OnFinishGetsAllMetadata ==
    \A n \in Runs :
        Resolved(n) =>
            \A t \in 1..Len(ToolsOf(n)) :
                ToolsOf(n)[t].onFinish # "none" =>
                    OnFinishOnceWith(n, ToolsOf(n)[t].name, MetadataValues)

\* The same for the metadata values that are truthy, the others being left
\* out by `if (result.metadata)`: this much holds.
C22_ForTruthyMetadata ==
    \A n \in Runs :
        Resolved(n) =>
            \A t \in 1..Len(ToolsOf(n)) :
                ToolsOf(n)[t].onFinish # "none" =>
                    OnFinishOnceWith(n, ToolsOf(n)[t].name, TruthyValues)

\* The files of a list that are directly in a directory, in the order of the
\* list.
FilesIn(filePaths, dir) == SelectSeq(filePaths, LAMBDA p : Parent(p) = dir)

\* The calls of transform in run n for a strategy of a tool.
TransformsOf(n, toolName, strategyName) ==
    SelectSeq(EventsOf(n, "transform"),
              LAMBDA e : e.toolName = toolName /\ e.strategy = strategyName)

\* C23: for each strategy, run calls transform exactly once per distinct
\* directory that holds at least one matched file, with exactly the matched
\* files of that directory: every call is for a directory of the matched
\* files and no two calls are for the same directory; once run has resolved
\* every such directory has had its call, so every matched file was in
\* exactly one call; and transform is not called when no file matches.
C23_OncePerDirectory ==
    \A n \in Runs :
        \A f \in 1..Len(EventsOf(n, "found")) :
            LET found == EventsOf(n, "found")[f]
                calls == TransformsOf(n, found.toolName, found.strategy)
            IN  /\ \A i \in 1..Len(calls) :
                       /\ calls[i].dir \in DirsOf(found.filePaths)
                       /\ calls[i].files = FilesIn(found.filePaths, calls[i].dir)
                /\ \A i, j \in 1..Len(calls) : calls[i].dir = calls[j].dir => i = j
                /\ Resolved(n) =>
                       \A dir \in DirsOf(found.filePaths) :
                           \E i \in 1..Len(calls) : calls[i].dir = dir
                /\ found.filePaths = <<>> => calls = <<>>

\* A run resolved in which a strategy matched two files of one directory and
\* one of another and transform was called twice for it, and a strategy that
\* matched nothing had no call.
C23_Witness ==
    \E n \in Runs :
        /\ Resolved(n)
        /\ \E f, g \in 1..Len(EventsOf(n, "found")) :
               LET found == EventsOf(n, "found")[f]
                   none == EventsOf(n, "found")[g]
                   calls == TransformsOf(n, found.toolName, found.strategy)
               IN  /\ Len(found.filePaths) = 3
                   /\ Len(calls) = 2
                   /\ \E i \in 1..2 : Len(calls[i].files) = 2
                   /\ none.filePaths = <<>>
                   /\ TransformsOf(n, none.toolName, none.strategy) = <<>>

---------------------------------------------------------------------------
(* Engine.readFile and missing files (checked under SpecEngine)             *)

\* The calls of readFile so far.
ReadFileCalls ==
    {engineLog[k].n : k \in {j \in 1..Len(engineLog) : engineLog[j].event = "readFile"}}

\* The request of readFile call n.
RequestOf(n) == EventsOf(n, "readFile")[1]

\* The document at p, expanded for tool t, meets a file that includes itself.
CycleFrom(p, t) ==
    \E f \in Closure({p}, t, Cardinality(DOMAIN files)) : IncludesItself(f, t)

\* The document at p has, for tool t, a directive outside dropped regions
\* whose file cannot be read.
HasMissingInclude(p, t) ==
    \E i \in 1..Len(LiveDirectives(files[p], t)) :
        Normalize(resolvePath(LiveDirectives(files[p], t)[i].path, RootPath, p))
            \notin DOMAIN files

\* C24: readFile fails when the file it is asked for does not exist, and
\* returns nothing for it, no marker either; when the file exists, readFile
\* fails only on a circular dependency: a directive inside it whose file is
\* missing never makes it fail.
C24_MissingTopLevelFileFails ==
    \A n \in ReadFileCalls :
        LET rq == RequestOf(n)
        IN  /\ rq.path \notin DOMAIN files =>
                /\ ~Resolved(n)
                /\ (engineOp.n > n \/ engineOp.kind = "none") =>
                       /\ Rejected(n)
                       /\ EventsOf(n, "rejected")[1].error = "ENOENT"
            /\ (rq.path \in DOMAIN files /\ Rejected(n)) =>
                /\ EventsOf(n, "rejected")[1].error = "CircularDependency"
                /\ CycleFrom(rq.path, rq.toolName)

\* One readFile was rejected for a file that is not there; another, for a
\* file with a directive whose file is not there, returned content holding
\* the marker.
C24_Witness ==
    \E n, m \in ReadFileCalls :
        /\ RequestOf(n).path \notin DOMAIN files
        /\ Rejected(n)
        /\ RequestOf(m).path \in DOMAIN files
        /\ HasMissingInclude(RequestOf(m).path, RequestOf(m).toolName)
        /\ Resolved(m)
        /\ \E i \in 1..Len(EventsOf(m, "resolved")[1].sourceFiles[1].content) :
               EventsOf(m, "resolved")[1].sourceFiles[1].content[i] = Ch("[MISSING FILE: ")

---------------------------------------------------------------------------
(* The visitation set during a call (checked under Spec)                    *)

\* The files on the recursion path: those of the calls in flight that have
\* passed the cycle check.
RecursionPath == {stack[i].path : i \in Entered}

\* The files whose expansion has completed, and which are not being expanded
\* again.
Completed == {exits[k].path : k \in {j \in 1..Len(exits) : ~exits[j].threw}}
                 \ RecursionPath

\* C25: at every point of a top-level call that has not failed, the
\* visitation set is exactly the set of the files on the recursion path from
\* the root document to the file being expanded: every ancestor is in it, no
\* file whose expansion has completed, no file of a sibling branch; and it is
\* empty when the call has returned.
C25_VisitationSetIsRecursionPath ==
    /\ status = "running" =>
           /\ visited = RecursionPath
           /\ visited \cap Completed = {}
           /\ \A i \in Entered : \A j \in 1..i : stack[j].path \in visited
    /\ status = "done" => visited = {}

\* Three calls are in flight, one inside the other, and the set holds their
\* three files; the file of the second was expanded to its end once before,
\* under an earlier directive of the root, had left the set, and is being
\* expanded again.
C25_Witness ==
    /\ status = "running"
    /\ Len(stack) = 3
    /\ Entered = {1, 2, 3}
    /\ visited = {stack[1].path, stack[2].path, stack[3].path}
    /\ Cardinality(visited) = 3
    /\ \E k \in 1..Len(exits) : ~exits[k].threw /\ exits[k].path = stack[2].path

---------------------------------------------------------------------------
(* C26 *)

RECURSIVE FramesInFlight(_, _)
\* The process calls in flight, those of the waiting Engine methods included:
\* the calls of the method in progress first, then those that wait for it.
FramesInFlight(op, frames) ==
    IF op.outer = <<>> THEN frames
    ELSE frames \o FramesInFlight(op.outer[1].op, op.outer[1].stack)

\* The calls in flight that passed the cycle check of process.
ExpandingNow ==
    LET fs == FramesInFlight(engineOp, stack)
    IN  {i \in 1..Len(fs) : fs[i].phase # "enter"}

\* C26: an inclusion cycle that closes through the file read of a pipeline
\* stage is stopped by cycle detection: no file is expanded again while its
\* own expansion is still in flight, whether the inner expansion was started
\* by an include directive or by a stage's engine.readFile.
C26_StageCycleStopped ==
    LET fs == FramesInFlight(engineOp, stack)
    IN  \A i, j \in ExpandingNow : fs[i].path = fs[j].path => i = j

\* The cycle is followed as deep as the model goes: MaxNest calls of
\* engine.readFile wait for one another and the innermost is expanding the
\* file all of them are expanding, each with a visitation set of its own.
C26_Unbounded ==
    /\ Nesting(engineOp) = MaxNest
    /\ LET fs == FramesInFlight(engineOp, stack)
       IN  Cardinality({i \in ExpandingNow : fs[i].path = HPath}) = MaxNest + 1
    /\ visited = {HPath, APath}

---------------------------------------------------------------------------
(* C27 *)

\* The process calls that returned the resolved content of file p.
ResolvedExits(p) ==
    {i \in 1..Len(exits) : exits[i].path = Normalize(p) /\ ~exits[i].threw}

\* C27: every call of a pipeline stage made for an include directive is made
\* for a directive with a pipelines attribute while a registry is supplied,
\* after the file of the directive was read and a recursive process call on
\* it returned, with the text that call returned as content; the file of
\* the directive is readable, so the content is never the missing-file
\* marker put in for an unreadable file.
C27_PipelinesAfterResolution ==
    \A k \in 1..Len(pipeLog) :
        LET e == pipeLog[k]
            resolvedPath == resolvePath(e.directive.path, RootPath, e.by)
        IN  /\ e.directive.pipes # <<>>
            /\ registry
            /\ Readable(resolvedPath)
            /\ \E i \in 1..Len(reads) :
                   /\ reads[i].by = e.by
                   /\ reads[i].directive = e.directive
                   /\ reads[i].ok
            /\ \E i \in ResolvedExits(resolvedPath) :
                   exits[i].text = e.call.content
            /\ e.call.content # missingFileMarker(e.directive.path)

\* A stage was called with the resolved content of a file whose raw content
\* has an include directive of its own, so that the two differ.
C27_Witness ==
    /\ status = "done"
    /\ \E k \in 1..Len(pipeLog) :
           LET e == pipeLog[k]
               resolvedPath == resolvePath(e.directive.path, RootPath, e.by)
           IN  /\ e.call.content # files[Normalize(resolvedPath)]
               /\ \E j \in 1..Len(files[Normalize(resolvedPath)]) :
                      files[Normalize(resolvedPath)][j].t = "inc"

\* An unreadable file of a directive with a pipelines attribute, a registry
\* being supplied: the marker went into the text, and no stage was called.
C27_MarkerNotPiped ==
    /\ status = "done"
    /\ registry
    /\ pipeLog = <<>>
    /\ \E i \in 1..Len(reads) : ~reads[i].ok /\ reads[i].directive.pipes # <<>>

---------------------------------------------------------------------------
(* C28 *)

\* The text in which the first occurrence of the directive has given way to
\* the replacement as it is, character for character.
Verbatim(text, fullMatch, replacement) ==
    LET hits == {i \in 1..Len(text) : text[i] = fullMatch}
    IN  IF hits = {} THEN text
        ELSE LET k == CHOOSE i \in hits : \A j \in hits : i <= j
             IN  SubSeq(text, 1, k - 1) \o replacement
                     \o SubSeq(text, k + 1, Len(text))

\* The call in flight that has just put a replacement into its text.
Substituted ==
    /\ stack # <<>>
    /\ Len(stack') = Len(stack)
    /\ Len(stack'[Len(stack)].resolutions) = Len(Top.resolutions) + 1

\* C28: substitution is verbatim: whenever processIncludes replaces a
\* directive, by the resolved (and piped) content of its file or by the
\* missing-file marker, the new text is the old text with the replacement in
\* the place of the directive character for character, whatever "$"
\* sequences the content or the path literal holds.
C28_SubstitutionVerbatim ==
    [][Substituted =>
          LET new == stack'[Len(stack)]
          IN  new.text = Verbatim(Top.text, Top.matches[Top.idx],
                                  new.resolutions[Len(new.resolutions)])]_vars

---------------------------------------------------------------------------
(* C29 *)

\* The positions in the log of run n where the run rejected with
\* CircularDependency.
CircularRejections(n) ==
    {k \in 1..Len(LogOf(n)) :
        /\ LogOf(n)[k].event = "rejected"
        /\ LogOf(n)[k].error = "CircularDependency"}

\* The last entry of one kind in the log of run n before position k, 0 when
\* there is none.
LastBefore(n, k, kinds) ==
    LET earlier == {j \in 1..(k - 1) : LogOf(n)[j].event \in kinds}
    IN  IF earlier = {} THEN 0
        ELSE CHOOSE j \in earlier : \A i \in earlier : i <= j

\* The file system a logged transform or onFinish call left.
LeftBy(e) == IF e.result.threw THEN e.before ELSE applyResult(e.before, e.result)

\* C29: a CircularDependency raised while run preprocesses a matched file
\* rejects run there and then: the rejection is the last thing the run does
\* (no transform, no onFinish, no search of a later strategy follows it), the
\* directory group of the file has had no transform in that strategy, the run
\* is over, and the file system is as the last transform or onFinish before
\* the rejection left it.
C29_CircularDependencyEndsRun ==
    \A n \in Runs :
        \A k \in CircularRejections(n) :
            LET rejection == LogOf(n)[k]
                found == LastBefore(n, k, {"found"})
                last == LastBefore(n, k, {"transform", "onFinish"})
            IN  /\ k = Len(LogOf(n))
                /\ engineOp.n = n => engineOp.kind = "none"
                /\ found # 0
                /\ LogOf(n)[found].toolName = rejection.toolName
                /\ \A j \in (found + 1)..Len(LogOf(n)) :
                       LogOf(n)[j].event = "transform" =>
                           LogOf(n)[j].dir # Parent(rejection.path)
                /\ (\A r \in Runs : r <= n) /\ last # 0 =>
                       files = LeftBy(LogOf(n)[last])

\* A run was rejected by the CircularDependency of a file of its second
\* directory group, after the transform of the first group had been called,
\* with a second strategy and a second tool still to come.
C29_Witness ==
    \E n \in Runs :
        \E k \in CircularRejections(n) :
            /\ LastBefore(n, k, {"transform"}) > LastBefore(n, k, {"found"})
            /\ Len(ToolsOf(n)) = 2
            /\ LogOf(n)[k].toolName = ToolsOf(n)[1].name
            /\ Len(ToolsOf(n)[1].strategies) = 2
            /\ engineOp.kind = "none"

---------------------------------------------------------------------------
(* C30 *)

\* Where the outputs of a result go.
Destinations(r) == {destPath(r.files[i].path) : i \in 1..Len(r.files)}

\* The log ends with a call of transform or onFinish: the file system is as
\* that call and the handling of its result left it.
JustHandled ==
    /\ engineLog # <<>>
    /\ engineLog[Len(engineLog)].event \in {"transform", "onFinish"}

\* C30: for one result of transform or onFinish all deletions are done
\* before any of its files is written: afterwards every output of the result
\* is there with its new content, also when it matches a delete pattern of
\* the same result; every other file that matched a delete pattern is gone,
\* every other file is as it was; and a call that threw has changed nothing.
C30_DeletionsBeforeWrites ==
    JustHandled =>
        LET e == engineLog[Len(engineLog)]
            r == e.result
            gone == MatchedIn(e.before, r.deleteFiles) \ Destinations(r)
        IN  IF r.threw THEN files = e.before
            ELSE /\ DOMAIN files = (DOMAIN e.before \ gone) \cup Destinations(r)
                 /\ \A i \in 1..Len(r.files) :
                        (\A j \in (i + 1)..Len(r.files) :
                             destPath(r.files[j].path) # destPath(r.files[i].path))
                        => files[destPath(r.files[i].path)] = r.files[i].content
                 /\ \A p \in DOMAIN files \ Destinations(r) : files[p] = e.before[p]

\* A result whose output file was there before with another content and
\* matches a delete pattern of the same result: it was deleted, then written.
C30_Witness ==
    /\ JustHandled
    /\ LET e == engineLog[Len(engineLog)]
           r == e.result
       IN  /\ ~r.threw
           /\ \E i \in 1..Len(r.files) :
                  LET dest == destPath(r.files[i].path)
                  IN  /\ dest \in MatchedIn(e.before, r.deleteFiles)
                      /\ e.before[dest] # r.files[i].content
                      /\ files[dest] = r.files[i].content

\* A transform threw for a directory group: nothing was deleted or written
\* for the group, the file system is as it was when transform was called.
C30_ThrowLeavesFiles ==
    /\ JustHandled
    /\ engineLog[Len(engineLog)].event = "transform"
    /\ engineLog[Len(engineLog)].result.threw
    /\ files = engineLog[Len(engineLog)].before
====
